---------------------------- MODULE Spec2Model ----------------------------
(***************************************************************************)
(* State-machine model of the XDP interface binding layer (src/xdp/bind.c):*)
(* the interface-set registry, the reference-counted XDP_INTERFACE, its    *)
(* serialized work queue, the NMR provider attachment and the binding      *)
(* clients.                                                                *)
(***************************************************************************)
EXTENDS Integers, Sequences, FiniteSets, TLC

(***************************************************************************)
(* Bounds of the model.                                                    *)
(***************************************************************************)
MaxBindings == 2      \* XDP_INTERFACE objects ever allocated
MaxNmr == 2           \* XDP_INTERFACE_NMR objects ever allocated
MaxHeld == 1          \* outstanding FindAndReferenceBinding results
MaxQueues == 2        \* interface queues consumers hold
MaxWork == 1          \* consumer work items queued at a time
NumEntries == 2       \* XDP_BINDING_CLIENT_ENTRY objects
NumIf == 2            \* interface indexes
MaxReRegister == 1    \* registrations made inside the notifications of a rundown
MaxVersions == 3    \* entries of a DriverApiVersions array

(***************************************************************************)
(* Program constants.                                                      *)
(***************************************************************************)
XDP_INTERFACE_MODE_GENERIC == 0
XDP_INTERFACE_MODE_NATIVE == 1
HALF == 65536
XDP_CAPABILITIES_EX_REVISION_1 == 1
XDP_SIZEOF_CAPABILITIES_EX_REVISION_1 == 40
SIZEOF_XDP_VERSION == 12
SIZEOF_XDP_HOOK_ID == 12

NULL == 0
STATUS_SUCCESS == "STATUS_SUCCESS"
STATUS_NOT_SUPPORTED == "STATUS_NOT_SUPPORTED"
STATUS_NO_MEMORY == "STATUS_NO_MEMORY"
STATUS_DUPLICATE_OBJECTID == "STATUS_DUPLICATE_OBJECTID"
STATUS_DELETE_PENDING == "STATUS_DELETE_PENDING"
STATUS_UNSUCCESSFUL == "STATUS_UNSUCCESSFUL"
ProviderErrors == {"STATUS_UNSUCCESSFUL", "STATUS_INSUFFICIENT_RESOURCES"}
NT_SUCCESS(Status) == Status = STATUS_SUCCESS

Modes == {XDP_INTERFACE_MODE_GENERIC, XDP_INTERFACE_MODE_NATIVE}
Bindings == 1..MaxBindings
NmrIds == 1..MaxNmr
Entries == 1..NumEntries
IfIndexes == 1..NumIf

XdpDriverApiCurrentVersion == [Major |-> 1, Minor |-> 1, Patch |-> 1]

VARIABLES
    XdpInterfaceSets,   \* the registry list: Seq of XDP_INTERFACE_SET
    Interface,          \* XDP_INTERFACE objects, by address
    Nmr,                \* XDP_INTERFACE_NMR objects, by address
    WorkQueue,          \* the items inserted on each interface's work queue
    worker,             \* position of each interface's worker thread
    Entry,              \* XDP_BINDING_CLIENT_ENTRY objects, by address
    held,               \* binding references consumers got from Find
    queues,             \* interface queues consumers hold, per binding
    asserts,            \* ASSERTs that evaluated to false (free builds go on)
    ret                 \* what the last call returned to its caller

vars == <<XdpInterfaceSets, Interface, Nmr, WorkQueue, worker, Entry,
          held, queues, asserts, ret>>

NoRet == [op |-> "none"]

RECURSIVE SumTo(_, _)
SumTo(f, n) == IF n = 0 THEN 0 ELSE f[n] + SumTo(f, n - 1)
Sum(f) == SumTo(f, MaxBindings)


(***************************************************************************)
(* Objects.  Pointers are addresses 1..n, NULL is 0.  The fields are those *)
(* of the C structures; alloc, frees and the *Calls counters record what   *)
(* happened to the object (pool state, calls into other modules).          *)
(***************************************************************************)
\* A UINT32 as its two 16-bit halves, so that 32-bit unsigned arithmetic is
\* carried out exactly, carry and overflow included.
U32(n) == [hi |-> n \div HALF, lo |-> n % HALF]
U32Max == [hi |-> HALF - 1, lo |-> HALF - 1]

Version(ma, mi, pa) == [Major |-> ma, Minor |-> mi, Patch |-> pa]

CapsEx(rev, size, count, offset, versions) ==
    [Revision |-> rev, Size |-> size, DriverApiVersionCount |-> count,
     DriverApiVersionsOffset |-> offset, Versions |-> versions]

ZeroVersion == [Major |-> 0, Minor |-> 0, Patch |-> 0]

NoInterface ==
    [alloc |-> "none", IfIndex |-> 0, IfSet |-> NULL,
     XdpIfInterfaceContext |-> NULL, Mode |-> XDP_INTERFACE_MODE_GENERIC,
     Hooks |-> <<>>, CapabilitiesEx |-> CapsEx(0, 0, U32(0), U32(0), <<>>),
     Nmr |-> NULL,
     DriverApiVersion |-> ZeroVersion, InterfaceDispatch |-> "NULL",
     InterfaceContext |-> NULL, ReferenceCount |-> 0, Clients |-> <<>>,
     ProviderReference |-> 0, BindingDeleting |-> FALSE,
     NmrDeleting |-> FALSE, WorkQueue |-> NULL,
     frees |-> 0, removeCompletes |-> 0]

NoNmr ==
    [alloc |-> "none", BindingHandle |-> NULL, NmrHandle |-> NULL,
     DetachNotification |-> FALSE, ReferenceCount |-> 0,
     opened |-> FALSE, detach |-> "none", closeCalls |-> 0,
     cleanupCalls |-> 0, frees |-> 0, prAtClose |-> 0]

NoEntry == [Link |-> NULL, ClientId |-> 0, Key |-> "none"]

DeleteItem == [kind |-> "delete", nmr |-> NULL]
NmrItem(n) == [kind |-> "nmr", nmr |-> n]
ClientItem == [kind |-> "client", nmr |-> NULL]

\* A worker thread: where it is (idle, in the wait of XdpIfpCloseNmrInterface,
\* at the head of the loop of XdpIfpStartRundown, inside a client's
\* BindingDetached), the item it runs, where XdpIfpCloseInterface returns to,
\* the entry being notified, the NMR context waited on, what the routine
\* will return, the clients the rundown found and notified, the number of
\* registrations that clients made from inside their notifications and the
\* linked entries that clients deregistered from inside them.
IdleWorker ==
    [pc |-> "idle", item |-> ClientItem, cont |-> "none", entry |-> NULL,
     waitNmr |-> NULL, ret |-> NoRet, walkStart |-> {}, walkNotified |-> <<>>,
     walkRegistered |-> 0, walkDeregistered |-> {}]

(***************************************************************************)
(* The heap the C routines work on, as one value, so that a routine is an  *)
(* operator from heap to heap and routines compose as calls do.            *)
(***************************************************************************)
Heap == [If |-> Interface, Nm |-> Nmr, En |-> Entry, wq |-> WorkQueue,
         as |-> asserts]

Commit(h) ==
    /\ Interface' = h.If
    /\ Nmr' = h.Nm
    /\ Entry' = h.En
    /\ WorkQueue' = h.wq
    /\ asserts' = h.as

ASSERT_(h, cond, name) == IF cond THEN h ELSE [h EXCEPT !.as = @ \cup {name}]

\* A faulty variant: the reference is not taken.
ReferenceNotTaken(h, b) == h

\* XdpIfpReferenceInterface: InterlockedIncrement(&Interface->ReferenceCount)
XdpIfpReferenceInterface(h, b) ==
    [h EXCEPT !.If[b].ReferenceCount = @ + 1]

\* XdpIfpDereferenceInterface: at zero the work queue is shut down and the
\* interface is freed.
XdpIfpDereferenceInterface(h, b) ==
    LET rc == h.If[b].ReferenceCount - 1 IN
    IF rc = 0
    THEN LET h1 == ASSERT_(h, h.If[b].ProviderReference = 0,
                           "DereferenceInterface:ProviderReference==0")
         IN [h1 EXCEPT !.If[b] = [NoInterface EXCEPT
                                     !.alloc = "freed",
                                     !.frees = h.If[b].frees + 1,
                                     !.removeCompletes =
                                         h.If[b].removeCompletes],
                       !.wq[b] = <<>>]
    ELSE [h EXCEPT !.If[b].ReferenceCount = rc]

\* A faulty variant: the first release frees the NMR context.
DereferenceNmrFreesAtOnce(h, n) ==
    [h EXCEPT !.Nm[n].ReferenceCount = 0,
              !.Nm[n].alloc = "freed",
              !.Nm[n].BindingHandle = NULL,
              !.Nm[n].frees = @ + 1]

\* XdpIfpDereferenceNmr: --Nmr->ReferenceCount == 0 frees the NMR context.
XdpIfpDereferenceNmr(h, n) ==
    LET rc == h.Nm[n].ReferenceCount - 1 IN
    IF rc = 0
    THEN LET h1 == ASSERT_(h, h.Nm[n].NmrHandle = NULL,
                           "DereferenceNmr:NmrHandle==NULL")
         IN [h1 EXCEPT !.Nm[n].ReferenceCount = 0,
                       !.Nm[n].alloc = "freed",
                       !.Nm[n].BindingHandle = NULL,
                       !.Nm[n].frees = @ + 1]
    ELSE [h EXCEPT !.Nm[n].ReferenceCount = rc]

\* XdpInsertWorkQueue: the work queue keeps its items in the order of their
\* submission.
XdpInsertWorkQueue(queue, item) == Append(queue, item)

\* XdpIfQueueWorkItem: takes a reference for the item and inserts it in the
\* interface's work queue.
XdpIfQueueWorkItem(h, b, item) ==
    LET h1 == XdpIfpReferenceInterface(h, b) IN
    [h1 EXCEPT !.wq[b] = XdpInsertWorkQueue(@, item)]

(***************************************************************************)
(* Capability validation.                                                  *)
(***************************************************************************)
\* RtlUInt32Mult by an element size, and RtlUInt32Add: fail on 32-bit
\* overflow.  First a faulty variant: the product wraps around.
RtlUInt32MultWraps(a, size) ==
    LET lo == a.lo * size
        hi == a.hi * size + (lo \div HALF)
    IN [ok |-> TRUE, v |-> [hi |-> hi % HALF, lo |-> lo % HALF]]

RtlUInt32Mult(a, size) ==
    LET lo == a.lo * size
        hi == a.hi * size + (lo \div HALF)
    IN IF hi >= HALF THEN [ok |-> FALSE, v |-> U32(0)]
       ELSE [ok |-> TRUE, v |-> [hi |-> hi, lo |-> lo % HALF]]

RtlUInt32Add(a, b) ==
    LET lo == a.lo + b.lo
        hi == a.hi + b.hi + (lo \div HALF)
    IN IF hi >= HALF THEN [ok |-> FALSE, v |-> U32(0)]
       ELSE [ok |-> TRUE, v |-> [hi |-> hi, lo |-> lo % HALF]]

\* A faulty variant: the end of the array is not compared with the size.
TotalSizeNotCompared(a, b) == TRUE

\* TotalSize >= Size
U32GreaterOrEqual(a, b) == a.hi > b.hi \/ (a.hi = b.hi /\ a.lo >= b.lo)

XdpValidateCapabilitiesEx(CapabilitiesEx, TotalSize) ==
    IF \/ CapabilitiesEx.Revision < XDP_CAPABILITIES_EX_REVISION_1
       \/ CapabilitiesEx.Size < XDP_SIZEOF_CAPABILITIES_EX_REVISION_1
    THEN FALSE
    ELSE LET m == RtlUInt32Mult(CapabilitiesEx.DriverApiVersionCount,
                                SIZEOF_XDP_VERSION)
         IN IF ~m.ok THEN FALSE
            ELSE LET a == RtlUInt32Add(
                              CapabilitiesEx.DriverApiVersionsOffset, m.v)
                 IN IF ~a.ok THEN FALSE
                    ELSE U32GreaterOrEqual(TotalSize, a.v)

(***************************************************************************)
(* Inputs: hook ids, capability blobs and the descriptors of AddInterfaces.*)
(***************************************************************************)
HookRx == [Layer |-> "L2", Direction |-> "RX", SubLayer |-> "INSPECT"]
HookTx == [Layer |-> "L2", Direction |-> "TX", SubLayer |-> "INSPECT"]
HookIdLists == {<<>>, <<HookRx>>, <<HookTx>>, <<HookRx, HookTx>>}

\* A well-formed blob: the version array follows the header.
GoodCaps(versions) ==
    [CapabilitiesEx |->
        CapsEx(XDP_CAPABILITIES_EX_REVISION_1,
               XDP_SIZEOF_CAPABILITIES_EX_REVISION_1, U32(Len(versions)),
               U32(XDP_SIZEOF_CAPABILITIES_EX_REVISION_1), versions),
     CapabilitiesSize |->
        U32(XDP_SIZEOF_CAPABILITIES_EX_REVISION_1
               + Len(versions) * SIZEOF_XDP_VERSION)]

\* A malformed blob: the declared size is one byte short of the version
\* array.
ShortCaps(versions) ==
    [GoodCaps(versions) EXCEPT !.CapabilitiesSize.lo = @ - 1]

\* One XDP_ADD_INTERFACE without its mode: the capabilities, and whether the
\* two allocations of XdpIfAddInterfaces succeed.  The caller zeroes the
\* output handle.
Descriptor(caps, hooks, allocOk, workQueueOk) ==
    [Caps |-> caps, Hooks |-> hooks, allocOk |-> allocOk,
     workQueueOk |-> workQueueOk]

\* The well-formed descriptor of each mode, and the failing ones: an
\* allocation that fails, a work queue that cannot be created, a malformed
\* capability blob.
GoodDescriptor(m) ==
    IF m = XDP_INTERFACE_MODE_GENERIC
    THEN Descriptor(GoodCaps(<<Version(1, 0, 0)>>), <<HookRx>>, TRUE, TRUE)
    ELSE Descriptor(GoodCaps(<<Version(2, 0, 0), Version(1, 1, 0)>>),
                    <<HookTx>>, TRUE, TRUE)

DescriptorSamples(m) ==
    {GoodDescriptor(m),
     [GoodDescriptor(m) EXCEPT !.allocOk = FALSE],
     [GoodDescriptor(m) EXCEPT !.workQueueOk = FALSE],
     [GoodDescriptor(m) EXCEPT
         !.Caps = ShortCaps(GoodDescriptor(m).Caps.CapabilitiesEx.Versions)]}

AddDescriptors ==
    UNION {{[Mode |-> m, Caps |-> d.Caps, Hooks |-> d.Hooks,
             allocOk |-> d.allocOk, workQueueOk |-> d.workQueueOk] :
               d \in DescriptorSamples(m)} : m \in Modes}

(***************************************************************************)
(* The interface-set registry.                                             *)
(***************************************************************************)
NoSlots == [m \in Modes |-> NULL]

\* XdpIfpFindIfSet: the first set of the list with this IfIndex (its
\* position), or NULL.
RECURSIVE XdpIfpFindIfSetFrom(_, _, _)
XdpIfpFindIfSetFrom(sets, IfIndex, k) ==
    IF k > Len(sets) THEN NULL
    ELSE IF sets[k].IfIndex = IfIndex THEN k
    ELSE XdpIfpFindIfSetFrom(sets, IfIndex, k + 1)

XdpIfpFindIfSet(sets, IfIndex) == XdpIfpFindIfSetFrom(sets, IfIndex, 1)

RemoveAt(seq, k) == SubSeq(seq, 1, k - 1) \o SubSeq(seq, k + 1, Len(seq))

\* A faulty variant: the set is inserted without the duplicate check.
CreateWithoutDuplicateCheck(sets, IfIndex, allocOk) ==
    IF ~allocOk
    THEN [sets |-> sets, Status |-> STATUS_NO_MEMORY]
    ELSE [sets |-> Append(sets, [IfIndex |-> IfIndex, Interfaces |-> NoSlots]),
          Status |-> STATUS_SUCCESS]

\* XdpIfCreateInterfaceSet
XdpIfCreateInterfaceSet(sets, IfIndex, allocOk) ==
    IF XdpIfpFindIfSet(sets, IfIndex) # NULL
    THEN [sets |-> sets, Status |-> STATUS_DUPLICATE_OBJECTID]
    ELSE IF ~allocOk
    THEN [sets |-> sets, Status |-> STATUS_NO_MEMORY]
    ELSE [sets |-> Append(sets, [IfIndex |-> IfIndex, Interfaces |-> NoSlots]),
          Status |-> STATUS_SUCCESS]

CreateInterfaceSet(IfIndex, allocOk) ==
    LET r == XdpIfCreateInterfaceSet(XdpInterfaceSets, IfIndex, allocOk) IN
    /\ XdpInterfaceSets' = r.sets
    /\ ret' = [op |-> "CreateInterfaceSet", IfIndex |-> IfIndex,
               Status |-> r.Status]
    /\ UNCHANGED <<Interface, Nmr, WorkQueue, worker, Entry, held, queues,
                   asserts>>

\* XdpIfDeleteInterfaceSet: FRE_ASSERT that both slots are empty.
DeleteInterfaceSet(k) ==
    /\ k \in 1..Len(XdpInterfaceSets)
    /\ \A m \in Modes : XdpInterfaceSets[k].Interfaces[m] = NULL
    /\ XdpInterfaceSets' = RemoveAt(XdpInterfaceSets, k)
    /\ ret' = NoRet
    /\ UNCHANGED <<Interface, Nmr, WorkQueue, worker, Entry, held, queues,
                   asserts>>

\* The address ExAllocatePoolZero returns: the lowest never-used one.
FreshInterface(h) == CHOOSE b \in Bindings :
    /\ h.If[b].alloc = "none"
    /\ \A c \in Bindings : c < b => h.If[c].alloc # "none"

FreshNmr(h) == CHOOSE n \in NmrIds :
    /\ h.Nm[n].alloc = "none"
    /\ \A c \in NmrIds : c < n => h.Nm[c].alloc # "none"

SetSlot(sets, pos, Mode, b) ==
    [sets EXCEPT ![pos].Interfaces[Mode] = b]

\* A faulty variant: the failed batch is left as it is.
AddInterfacesNoUnwind(s, Index) == s

\* XdpIfAddInterfaces, the unwind after a failure: every output handle that
\* is set is taken out of its slot, cleared and dereferenced.
RECURSIVE AddInterfacesUnwind(_, _)
AddInterfacesUnwind(s, Index) ==
    IF Index > Len(s.handles) THEN s
    ELSE IF s.handles[Index] # NULL
    THEN LET b == s.handles[Index] IN
         AddInterfacesUnwind(
            [s EXCEPT !.sets = SetSlot(s.sets, s.pos, s.h.If[b].Mode, NULL),
                      !.handles[Index] = NULL,
                      !.h = XdpIfpDereferenceInterface(s.h, b)],
            Index + 1)
    ELSE AddInterfacesUnwind(s, Index + 1)

\* XdpIfAddInterfaces, the loop over the descriptors.
RECURSIVE AddInterfacesLoop(_, _, _)
AddInterfacesLoop(s, Interfaces, Index) ==
    IF Index > Len(Interfaces) THEN [s EXCEPT !.Status = STATUS_SUCCESS]
    ELSE
    LET AddIf == Interfaces[Index] IN
    IF ~XdpValidateCapabilitiesEx(AddIf.Caps.CapabilitiesEx,
                                  AddIf.Caps.CapabilitiesSize)
    THEN [s EXCEPT !.Status = STATUS_NOT_SUPPORTED]
    ELSE IF ~AddIf.allocOk THEN [s EXCEPT !.Status = STATUS_NO_MEMORY]
    ELSE IF ~AddIf.workQueueOk THEN [s EXCEPT !.Status = STATUS_NO_MEMORY]
    ELSE
    LET b == FreshInterface(s.h)
        new == [NoInterface EXCEPT
                  !.alloc = "live",
                  !.IfIndex = s.sets[s.pos].IfIndex,
                  !.IfSet = s.sets[s.pos].IfIndex,
                  !.XdpIfInterfaceContext = 1,
                  !.ReferenceCount = 1,
                  !.Mode = AddIf.Mode,
                  !.Hooks = AddIf.Hooks,
                  !.CapabilitiesEx = AddIf.Caps.CapabilitiesEx,
                  !.WorkQueue = 1]
        h1 == ASSERT_([s.h EXCEPT !.If[b] = new],
                      s.sets[s.pos].Interfaces[AddIf.Mode] = NULL,
                      "AddInterfaces:slot==NULL")
    IN AddInterfacesLoop(
          [s EXCEPT !.h = h1,
                    !.sets = SetSlot(s.sets, s.pos, AddIf.Mode, b),
                    !.handles[Index] = b],
          Interfaces, Index + 1)

XdpIfAddInterfaces(h, sets, pos, Interfaces) ==
    LET s0 == [h |-> h, sets |-> sets, pos |-> pos,
               handles |-> [i \in 1..Len(Interfaces) |-> NULL],
               Status |-> STATUS_SUCCESS]
        s1 == AddInterfacesLoop(s0, Interfaces, 1)
    IN IF NT_SUCCESS(s1.Status) THEN s1 ELSE AddInterfacesUnwind(s1, 1)

\* A descriptor for which the loop of XdpIfAddInterfaces creates a binding.
Creates(AddIf) ==
    /\ XdpValidateCapabilitiesEx(AddIf.Caps.CapabilitiesEx,
                                 AddIf.Caps.CapabilitiesSize)
    /\ AddIf.allocOk
    /\ AddIf.workQueueOk

\* The batches a provider passes: one descriptor per mode at most, for
\* slots that are empty (the ASSERT of XdpIfAddInterfaces).  The loop stops
\* at the first descriptor that fails, so one sample of what follows it is
\* enough.
Batches ==
    {batch \in UNION {[1..n -> AddDescriptors] : n \in 1..Cardinality(Modes)} :
        /\ \A i, j \in DOMAIN batch : i # j => batch[i].Mode # batch[j].Mode
        /\ \A i, j \in DOMAIN batch :
              (i < j /\ ~Creates(batch[i])) => Creates(batch[j])}

AddBatches(set) ==
    {batch \in Batches :
        \A i \in DOMAIN batch : set.Interfaces[batch[i].Mode] = NULL}

Unallocated == {b \in Bindings : Interface[b].alloc = "none"}

\* The number of bindings a batch creates before it fails or ends.

Created(Interfaces) ==
    Cardinality({i \in DOMAIN Interfaces :
                    \A j \in 1..i : Creates(Interfaces[j])})

AddInterfaces(pos, Interfaces) ==
    /\ pos \in 1..Len(XdpInterfaceSets)
    /\ Interfaces \in AddBatches(XdpInterfaceSets[pos])
    /\ Cardinality(Unallocated) >= Created(Interfaces)
    /\ LET r == XdpIfAddInterfaces(Heap, XdpInterfaceSets, pos, Interfaces) IN
       /\ Commit(r.h)
       /\ XdpInterfaceSets' = r.sets
       /\ ret' = [op |-> "AddInterfaces", Status |-> r.Status,
                  handles |-> r.handles]
    /\ UNCHANGED <<worker, held, queues>>

\* A faulty variant: the binding stays in its mode slot.
RECURSIVE RemoveLeavesSlot(_, _, _)
RemoveLeavesSlot(s, Interfaces, Index) ==
    IF Index > Len(Interfaces) THEN s
    ELSE
    LET b == Interfaces[Index]
        h1 == [s.h EXCEPT !.If[b].IfSet = NULL]
    IN RemoveLeavesSlot(
          [s EXCEPT !.h = XdpIfQueueWorkItem(h1, b, DeleteItem)],
          Interfaces, Index + 1)

\* A faulty variant: the initial reference is released by the caller's
\* thread, and no deletion work item is queued.
RECURSIVE RemoveReleasesDirectly(_, _, _)
RemoveReleasesDirectly(s, Interfaces, Index) ==
    IF Index > Len(Interfaces) THEN s
    ELSE
    LET b == Interfaces[Index]
        pos == XdpIfpFindIfSet(s.sets, s.h.If[b].IfSet)
        h1 == [s.h EXCEPT !.If[b].IfSet = NULL]
    IN RemoveReleasesDirectly(
          [s EXCEPT !.sets = SetSlot(s.sets, pos, s.h.If[b].Mode, NULL),
                    !.h = XdpIfpDereferenceInterface(h1, b)],
          Interfaces, Index + 1)

\* A faulty variant: the removal-complete callback of the provider is called
\* by the removing thread, inside the registry lock.
RECURSIVE RemoveCompletesUnderLock(_, _, _)
RemoveCompletesUnderLock(s, Interfaces, Index) ==
    IF Index > Len(Interfaces) THEN s
    ELSE
    LET b == Interfaces[Index]
        pos == XdpIfpFindIfSet(s.sets, s.h.If[b].IfSet)
        h1 == [s.h EXCEPT !.If[b].IfSet = NULL,
                          !.If[b].removeCompletes = @ + 1,
                          !.If[b].XdpIfInterfaceContext = NULL]
    IN RemoveCompletesUnderLock(
          [s EXCEPT !.sets = SetSlot(s.sets, pos, s.h.If[b].Mode, NULL),
                    !.h = XdpIfQueueWorkItem(h1, b, DeleteItem)],
          Interfaces, Index + 1)

\* XdpIfRemoveInterfaces
RECURSIVE XdpIfRemoveInterfaces(_, _, _)
XdpIfRemoveInterfaces(s, Interfaces, Index) ==
    IF Index > Len(Interfaces) THEN s
    ELSE
    LET b == Interfaces[Index]
        pos == XdpIfpFindIfSet(s.sets, s.h.If[b].IfSet)
        h1 == [s.h EXCEPT !.If[b].IfSet = NULL]
    IN XdpIfRemoveInterfaces(
          [s EXCEPT !.sets = SetSlot(s.sets, pos, s.h.If[b].Mode, NULL),
                    !.h = XdpIfQueueWorkItem(h1, b, DeleteItem)],
          Interfaces, Index + 1)

\* The handles a provider holds: those AddInterfaces returned and it has
\* not yet removed.
ProviderHandles == {b \in Bindings :
    Interface[b].alloc = "live" /\ Interface[b].IfSet # NULL}

SeqsOf(S) == {q \in UNION {[1..n -> S] : n \in 1..Cardinality(S)} :
                 \A i, j \in DOMAIN q : i # j => q[i] # q[j]}

RemoveInterfaces(Interfaces) ==
    /\ Interfaces \in SeqsOf(ProviderHandles)
    /\ \A i, j \in DOMAIN Interfaces : i < j => Interfaces[i] < Interfaces[j]
    /\ LET r == XdpIfRemoveInterfaces(
                    [h |-> Heap, sets |-> XdpInterfaceSets], Interfaces, 1) IN
       /\ Commit(r.h)
       /\ XdpInterfaceSets' = r.sets
       /\ ret' = NoRet
    /\ UNCHANGED <<worker, held, queues>>

(***************************************************************************)
(* Lookup.                                                                 *)
(***************************************************************************)
\* XdpIfSupportsHookId
XdpIfSupportsHookId(Hooks, Target) ==
    \E Index \in 1..Len(Hooks) :
        /\ Target.Layer = Hooks[Index].Layer
        /\ Target.Direction = Hooks[Index].Direction
        /\ Target.SubLayer = Hooks[Index].SubLayer

\* XdpIfpSupportsHookIds
XdpIfpSupportsHookIds(Hooks, TargetIds) ==
    \A TargetIndex \in 1..Len(TargetIds) :
        XdpIfSupportsHookId(Hooks, TargetIds[TargetIndex])

\* A faulty variant: the first qualifying binding is returned, not the last.
FindFirstInterfaceFrom(If, IfSet, HookIds, RequiredMode, Mode, found) ==
    LET Q == {m \in Modes :
                 /\ IfSet.Interfaces[m] # NULL
                 /\ (RequiredMode = <<>> \/ RequiredMode[1] = m)
                 /\ XdpIfpSupportsHookIds(If[IfSet.Interfaces[m]].Hooks,
                                          HookIds)}
    IN IF Q = {} THEN NULL
       ELSE IfSet.Interfaces[CHOOSE m \in Q : \A o \in Q : m <= o]

\* XdpIfpFindInterface: the loop runs generic first, then native, and
\* overwrites its result; RequiredMode is <<>> (a null pointer) or <<mode>>.
RECURSIVE XdpIfpFindInterfaceFrom(_, _, _, _, _, _)
XdpIfpFindInterfaceFrom(If, IfSet, HookIds, RequiredMode, Mode, found) ==
    IF Mode > XDP_INTERFACE_MODE_NATIVE THEN found
    ELSE
    LET CandidateIf == IfSet.Interfaces[Mode]
        skip == \/ CandidateIf = NULL
                \/ (RequiredMode # <<>> /\ RequiredMode[1] # Mode)
                \/ ~XdpIfpSupportsHookIds(If[CandidateIf].Hooks, HookIds)
    IN XdpIfpFindInterfaceFrom(If, IfSet, HookIds, RequiredMode, Mode + 1,
                               IF skip THEN found ELSE CandidateIf)

XdpIfpFindInterface(If, sets, IfIndex, HookIds, RequiredMode) ==
    LET pos == XdpIfpFindIfSet(sets, IfIndex) IN
    IF pos = NULL THEN NULL
    ELSE XdpIfpFindInterfaceFrom(If, sets[pos], HookIds, RequiredMode,
                                 XDP_INTERFACE_MODE_GENERIC, NULL)

\* XdpIfFindAndReferenceBinding
XdpIfFindAndReferenceBinding(h, sets, IfIndex, HookIds, RequiredMode) ==
    LET b == XdpIfpFindInterface(h.If, sets, IfIndex, HookIds, RequiredMode) IN
    [h |-> IF b # NULL THEN XdpIfpReferenceInterface(h, b) ELSE h,
     Interface |-> b]

RequiredModes == {<<>>} \cup {<<m>> : m \in Modes}

FindAndReferenceBinding(IfIndex, HookIds, RequiredMode) ==
    LET r == XdpIfFindAndReferenceBinding(Heap, XdpInterfaceSets, IfIndex,
                                          HookIds, RequiredMode)
        b == r.Interface IN
    /\ b # NULL => Sum(held) < MaxHeld
    /\ Commit(r.h)
    /\ held' = IF b = NULL THEN held ELSE [held EXCEPT ![b] = @ + 1]
    /\ ret' = [op |-> "FindAndReferenceBinding", Interface |-> b,
               IfIndex |-> IfIndex, HookIds |-> HookIds,
               RequiredMode |-> RequiredMode]
    /\ UNCHANGED <<XdpInterfaceSets, worker, queues>>

(***************************************************************************)
(* Closing and opening the provider attachment.                            *)
(***************************************************************************)
\* XdpIfpCloseInterface, lines 271-275: close the provider's interface
\* context (XdpIfpInvokeCloseInterface calls the provider).
CloseInterfaceContext(h, b) ==
    IF h.If[b].InterfaceContext # NULL
    THEN [h EXCEPT !.If[b].InterfaceDispatch = "NULL",
                   !.If[b].InterfaceContext = NULL]
    ELSE h

\* XdpIfpCloseNmrInterface up to its wait: the ASSERTs and XdpCloseProvider.
CloseNmrInterfaceBegin(h, b) ==
    LET n == h.If[b].Nmr
        h1 == ASSERT_(h, h.If[b].ProviderReference = 0,
                      "CloseNmrInterface:ProviderReference==0")
        h2 == ASSERT_(h1, h.If[b].InterfaceContext = NULL,
                      "CloseNmrInterface:InterfaceContext==NULL")
        h3 == ASSERT_(h2, h.Nm[n].NmrHandle # NULL,
                      "CloseNmrInterface:NmrHandle!=NULL")
    IN [h3 EXCEPT !.Nm[n].closeCalls = @ + 1,
                  !.Nm[n].prAtClose = h.If[b].ProviderReference]

\* XdpIfpCloseNmrInterface after KeWaitForSingleObject returned.
CloseNmrInterfaceEnd(h, b, n) ==
    LET h1 == [h EXCEPT !.Nm[n].cleanupCalls = @ + 1,
                        !.Nm[n].NmrHandle = NULL,
                        !.If[b].Nmr = NULL]
    IN XdpIfpDereferenceNmr(h1, n)

\* A faulty variant: the callback is invoked whether or not the binding is
\* being deleted.
CompleteWithoutDeleting(h, b) ==
    IF h.If[b].XdpIfInterfaceContext # NULL
    THEN [h EXCEPT !.If[b].removeCompletes = @ + 1,
                   !.If[b].XdpIfInterfaceContext = NULL]
    ELSE h

\* XdpIfpCloseInterface, lines 284-289: the removal-complete callback.
CloseInterfaceComplete(h, b) ==
    IF h.If[b].BindingDeleting /\ h.If[b].XdpIfInterfaceContext # NULL
    THEN [h EXCEPT !.If[b].removeCompletes = @ + 1,
                   !.If[b].XdpIfInterfaceContext = NULL]
    ELSE h

\* A faulty variant: both rundown flags are cleared.
CloseClearsBothFlags(h, b) ==
    [h EXCEPT !.If[b].NmrDeleting = FALSE, !.If[b].BindingDeleting = FALSE]

\* XdpIfpCloseInterface, line 279, after XdpIfpCloseNmrInterface returned.
CloseInterfaceNmrClosed(h, b) == [h EXCEPT !.If[b].NmrDeleting = FALSE]

\* XdpIfpCloseInterface until it returns or blocks in the wait of
\* XdpIfpCloseNmrInterface; wait is the NMR context waited on.
XdpIfpCloseInterfaceBegin(h, b) ==
    LET h1 == CloseInterfaceContext(h, b) IN
    IF h1.If[b].Nmr # NULL
    THEN [h |-> CloseNmrInterfaceBegin(h1, b), wait |-> h1.If[b].Nmr]
    ELSE [h |-> CloseInterfaceComplete(h1, b), wait |-> NULL]

\* XdpIfpCloseInterface from the wait to its return.
XdpIfpCloseInterfaceEnd(h, b, n) ==
    CloseInterfaceComplete(
        CloseInterfaceNmrClosed(CloseNmrInterfaceEnd(h, b, n), b), b)

\* A faulty variant: only the major version is compared.
VersionIsSupportedMajorOnly(V, MinimumSupportedVersion) ==
    V.Major = MinimumSupportedVersion.Major

\* XdpVersionIsSupported
XdpVersionIsSupported(V, MinimumSupportedVersion) ==
    /\ V.Major = MinimumSupportedVersion.Major
    /\ V.Minor >= MinimumSupportedVersion.Minor
    /\ V.Patch >= MinimumSupportedVersion.Patch

\* XdpRequestClientDispatch: accept is the set of positions of the version
\* array for which the provider's GetInterfaceDispatch succeeds; requested
\* lists the positions the provider was asked for.
RECURSIVE XdpRequestClientDispatchFrom(_, _, _, _)
XdpRequestClientDispatchFrom(Versions, accept, i, r) ==
    IF i > Len(Versions) THEN r
    ELSE IF XdpVersionIsSupported(XdpDriverApiCurrentVersion, Versions[i])
    THEN IF i \in accept
         THEN [Status |-> STATUS_SUCCESS, Version |-> Versions[i],
               index |-> i, requested |-> Append(r.requested, i)]
         ELSE XdpRequestClientDispatchFrom(Versions, accept, i + 1,
                 [r EXCEPT !.Status = STATUS_NOT_SUPPORTED,
                           !.requested = Append(@, i)])
    ELSE XdpRequestClientDispatchFrom(Versions, accept, i + 1, r)

XdpRequestClientDispatch(Versions, accept) ==
    XdpRequestClientDispatchFrom(Versions, accept, 1,
        [Status |-> STATUS_NOT_SUPPORTED, Version |-> ZeroVersion,
         index |-> 0, requested |-> <<>>])

\* The versions a provider may advertise: older than, equal to and newer
\* than XdpDriverApiCurrentVersion in each field.
VersionSamples ==
    {[XdpDriverApiCurrentVersion EXCEPT !.Minor = @ - 1, !.Patch = @ - 1],
     XdpDriverApiCurrentVersion,
     [XdpDriverApiCurrentVersion EXCEPT !.Minor = @ + 1, !.Patch = @ - 1],
     [XdpDriverApiCurrentVersion EXCEPT !.Patch = @ + 1],
     [XdpDriverApiCurrentVersion EXCEPT !.Major = @ + 1]}

VersionArrays ==
    UNION {[1..n -> VersionSamples] : n \in 0..MaxVersions}

\* A call of XdpRequestClientDispatch with the provider's version array and
\* the provider's answers to GetInterfaceDispatch.
RequestClientDispatch(Versions, accept) ==
    /\ ret' = [op |-> "RequestClientDispatch", Versions |-> Versions,
               accept |-> accept,
               result |-> XdpRequestClientDispatch(Versions, accept)]
    /\ UNCHANGED <<XdpInterfaceSets, Interface, Nmr, WorkQueue, worker,
                   Entry, held, queues, asserts>>

\* What the provider and the pool do during one open: whether the NMR
\* context is allocated, whether XdpOpenProvider succeeds, which versions
\* GetInterfaceDispatch accepts, whether the dispatch table has an
\* OpenInterface routine (then the context is not null) and what it returns.
ProviderBehaviour(nmrAllocOk, openOk, accept, hasOpen, ctxNull, openIfOk) ==
    [nmrAllocOk |-> nmrAllocOk, openOk |-> openOk, accept |-> accept,
     hasOpenInterface |-> hasOpen, contextNull |-> ctxNull,
     openInterfaceOk |-> openIfOk]

ProviderBehaviours ==
    {ProviderBehaviour(FALSE, TRUE, {}, FALSE, FALSE, TRUE),
     ProviderBehaviour(TRUE, FALSE, {}, FALSE, FALSE, TRUE)}
    \cup {ProviderBehaviour(TRUE, TRUE, a, TRUE, FALSE, ok) :
              a \in SUBSET (1..2), ok \in BOOLEAN}
    \cup {ProviderBehaviour(TRUE, TRUE, a, FALSE, null, TRUE) :
              a \in SUBSET (1..2), null \in BOOLEAN}

\* XdpIfpOpenInterface until it returns or blocks closing what it opened;
\* stage names the step the routine reached and nmr the NMR context it
\* opened.
XdpIfpOpenInterface(h, b, p) ==
    LET Caps == h.If[b].CapabilitiesEx IN
    IF \/ Caps.Revision < XDP_CAPABILITIES_EX_REVISION_1
       \/ Caps.Size < XDP_SIZEOF_CAPABILITIES_EX_REVISION_1
    THEN [h |-> h, Status |-> STATUS_NOT_SUPPORTED, wait |-> NULL,
          stage |-> "Capabilities",
          nmr |-> NULL]
    ELSE
    LET h1 == ASSERT_(h, h.If[b].Nmr = NULL, "OpenInterface:Nmr==NULL") IN
    IF ~p.nmrAllocOk
    THEN [h |-> [h1 EXCEPT !.If[b].Nmr = NULL],
          Status |-> STATUS_NO_MEMORY, wait |-> NULL,
          stage |-> "Allocate", nmr |-> NULL]
    ELSE IF ~p.openOk
    THEN \* reference, XdpOpenProvider fails, dereference, free the context
         [h |-> [XdpIfpDereferenceInterface(
                    XdpIfpReferenceInterface(h1, b), b)
                 EXCEPT !.If[b].Nmr = NULL],
          Status |-> STATUS_UNSUCCESSFUL, wait |-> NULL,
          stage |-> "XdpOpenProvider",
          nmr |-> NULL]
    ELSE
    LET n == FreshNmr(h1)
        h2 == [XdpIfpReferenceInterface(h1, b) EXCEPT
                  !.If[b].Nmr = n,
                  !.Nm[n] = [NoNmr EXCEPT !.alloc = "live",
                                          !.ReferenceCount = 2,
                                          !.BindingHandle = b,
                                          !.NmrHandle = 1,
                                          !.opened = TRUE]]
        d == XdpRequestClientDispatch(Caps.Versions, p.accept)
    IN
    IF ~NT_SUCCESS(d.Status)
    THEN LET c == XdpIfpCloseInterfaceBegin(h2, b) IN
         [h |-> c.h, Status |-> d.Status, wait |-> c.wait,
          stage |-> "XdpRequestClientDispatch",
          nmr |-> n]
    ELSE
    LET h3 == [h2 EXCEPT
                  !.If[b].DriverApiVersion = d.Version,
                  !.If[b].InterfaceContext =
                      IF p.contextNull THEN NULL ELSE 1,
                  !.If[b].InterfaceDispatch =
                      IF p.hasOpenInterface THEN "WithOpenInterface"
                      ELSE "WithoutOpenInterface"]
    IN
    IF p.hasOpenInterface /\ ~p.openInterfaceOk
    THEN LET c == XdpIfpCloseInterfaceBegin(h3, b) IN
         [h |-> c.h, Status |-> STATUS_UNSUCCESSFUL, wait |-> c.wait,
          stage |-> "OpenInterface",
          nmr |-> n]
    ELSE [h |-> h3, Status |-> STATUS_SUCCESS, wait |-> NULL,
          stage |-> "Opened",
          nmr |-> n]

\* XdpIfpOpenInterface, line 477, once the close it started has returned.
OpenInterfaceExit(h, b) == [h EXCEPT !.If[b].Nmr = NULL]

\* A faulty variant: only BindingDeleting is looked at.
RundownBindingOnly(I) == I.BindingDeleting

\* Interface->Rundown: the union of the two rundown bits.
Rundown(I) == I.BindingDeleting \/ I.NmrDeleting

\* XdpIfpReferenceProvider from the return of XdpIfpOpenInterface, o; usage
\* is ProviderReference at the call.
ReferenceProviderOpened(b, o, usage) ==
    IF ~NT_SUCCESS(o.Status)
    THEN [h |-> o.h, Status |-> o.Status, wait |-> o.wait, opened |-> TRUE,
          stage |-> o.stage, usage |-> usage, nmr |-> o.nmr]
    ELSE [h |-> [o.h EXCEPT !.If[b].ProviderReference = @ + 1],
          Status |-> STATUS_SUCCESS, wait |-> NULL, opened |-> TRUE,
          stage |-> o.stage, usage |-> usage, nmr |-> o.nmr]

\* XdpIfpReferenceProvider
XdpIfpReferenceProvider(h, b, p) ==
    IF Rundown(h.If[b])
    THEN [h |-> h, Status |-> STATUS_DELETE_PENDING, wait |-> NULL,
          opened |-> FALSE, stage |-> "Rundown",
          usage |-> h.If[b].ProviderReference, nmr |-> NULL]
    ELSE
    IF h.If[b].InterfaceContext = NULL
    THEN ReferenceProviderOpened(b,
            XdpIfpOpenInterface(
               ASSERT_(h, h.If[b].ProviderReference = 0,
                       "ReferenceProvider:ProviderReference==0"), b, p),
            h.If[b].ProviderReference)
    ELSE [h |-> [h EXCEPT !.If[b].ProviderReference = @ + 1],
          Status |-> STATUS_SUCCESS, wait |-> NULL, opened |-> FALSE,
          stage |-> "Referenced", usage |-> h.If[b].ProviderReference,
          nmr |-> NULL]

\* A faulty variant: the decrement is lost.
DereferenceProviderKeepsCount(h, b) == [h |-> h, wait |-> NULL]

\* XdpIfpDereferenceProvider until it returns or blocks in the close.
XdpIfpDereferenceProvider(h, b) ==
    LET h1 == [h EXCEPT !.If[b].ProviderReference = @ - 1] IN
    IF h1.If[b].ProviderReference = 0
    THEN XdpIfpCloseInterfaceBegin(h1, b)
    ELSE [h |-> h1, wait |-> NULL]

(***************************************************************************)
(* Binding clients.                                                        *)
(***************************************************************************)
ClientIds == {1}
Keys == {"A", "B"}

\* A faulty variant: BindingDeleting is not looked at.
RegisterWhileDeleting(h, b, ClientId, Key, e) ==
    LET h1 == [h EXCEPT !.En[e].ClientId = ClientId, !.En[e].Key = Key,
                        !.En[e].Link = b, !.If[b].ReferenceCount = @ + 1]
    IN [h |-> [h1 EXCEPT !.If[b].Clients = Append(@, e)],
        Status |-> STATUS_SUCCESS]

\* A faulty variant: the list is not searched for a duplicate.
RegisterDuplicate(h, b, ClientId, Key, e) ==
    IF h.If[b].BindingDeleting
    THEN [h |-> h, Status |-> STATUS_DELETE_PENDING]
    ELSE LET h1 == [h EXCEPT !.En[e].ClientId = ClientId,
                             !.En[e].Key = Key,
                             !.En[e].Link = b,
                             !.If[b].ReferenceCount = @ + 1]
         IN [h |-> [h1 EXCEPT !.If[b].Clients = Append(@, e)],
             Status |-> STATUS_SUCCESS]

\* XdpIfRegisterClient
XdpIfRegisterClient(h, b, ClientId, Key, e) ==
    IF h.If[b].BindingDeleting
    THEN [h |-> h, Status |-> STATUS_DELETE_PENDING]
    ELSE IF \E i \in 1..Len(h.If[b].Clients) :
               /\ h.En[h.If[b].Clients[i]].ClientId = ClientId
               /\ h.En[h.If[b].Clients[i]].Key = Key
    THEN [h |-> h, Status |-> STATUS_DUPLICATE_OBJECTID]
    ELSE LET h1 == [h EXCEPT !.En[e].ClientId = ClientId,
                             !.En[e].Key = Key,
                             !.En[e].Link = b]
             h2 == XdpIfpReferenceInterface(h1, b)
         IN [h |-> [h2 EXCEPT !.If[b].Clients = Append(@, e)],
             Status |-> STATUS_SUCCESS]

Without(seq, e) == SelectSeq(seq, LAMBDA x : x # e)

\* RemoveEntryList + InitializeListHead on a client entry.  The Client and
\* Key of an unlinked entry are not read again (XdpIfRegisterClient sets them
\* before it links the entry), so they are kept as XdpIfInitializeClientEntry
\* leaves them.
UnlinkEntry(h, e) ==
    LET l == h.En[e].Link IN
    [h EXCEPT !.If[l].Clients = Without(@, e), !.En[e] = NoEntry]

\* A faulty variant: the reference is released whether or not the entry is
\* linked.
DeregisterAlwaysReleases(h, b, e) ==
    IF h.En[e].Link # NULL
    THEN XdpIfpDereferenceInterface(UnlinkEntry(h, e), b)
    ELSE XdpIfpDereferenceInterface(h, b)

\* XdpIfDeregisterClient
XdpIfDeregisterClient(h, b, e) ==
    IF h.En[e].Link # NULL
    THEN XdpIfpDereferenceInterface(UnlinkEntry(h, e), b)
    ELSE h

\* XdpIfFindClientEntry
XdpIfFindClientEntry(h, b, ClientId, Key) ==
    LET hits == {i \in 1..Len(h.If[b].Clients) :
                    /\ h.En[h.If[b].Clients[i]].ClientId = ClientId
                    /\ h.En[h.If[b].Clients[i]].Key = Key}
    IN IF hits = {} THEN NULL
       ELSE h.If[b].Clients[CHOOSE i \in hits : \A j \in hits : i <= j]

(***************************************************************************)
(* The worker of an interface's work queue (XdpIfpInterfaceWorker) and     *)
(* the routines it runs.                                                   *)
(***************************************************************************)
Range(seq) == {seq[i] : i \in DOMAIN seq}

\* The end of a routine, and XdpIfpInterfaceWorker's dereference after it:
\* XdpIfpInterfaceDelete releases the initial reference, and
\* XdpIfpInterfaceNmrDelete the NMR context's.
RoutineEnd(h, b, item) ==
    IF item.kind = "delete" THEN XdpIfpDereferenceInterface(h, b)
    ELSE IF item.kind = "nmr" THEN XdpIfpDereferenceNmr(h, item.nmr)
    ELSE h

WorkerItemDone(h, b, item) ==
    XdpIfpDereferenceInterface(RoutineEnd(h, b, item), b)

Returned(h, b, item, r) ==
    [h |-> WorkerItemDone(h, b, item), w |-> IdleWorker, ret |-> r]

InWait(h, item, n, cont, entry, r) ==
    [h |-> h,
     w |-> [IdleWorker EXCEPT !.pc = "wait", !.item = item, !.waitNmr = n,
                              !.cont = cont, !.entry = entry, !.ret = r],
     ret |-> NoRet]

InRundown(h, b, item, start, notified) ==
    [h |-> h,
     w |-> [IdleWorker EXCEPT !.pc = "rundown", !.item = item,
                              !.walkStart = start, !.walkNotified = notified],
     ret |-> NoRet]

\* A faulty variant: an attachment without users is not closed.
StartRundownWithoutClose(h, b, item) ==
    InRundown(h, b, item, Range(h.If[b].Clients), <<>>)

\* XdpIfpStartRundown up to its loop.
XdpIfpStartRundown(h, b, item) ==
    LET c == IF h.If[b].ProviderReference = 0
             THEN XdpIfpCloseInterfaceBegin(h, b)
             ELSE [h |-> h, wait |-> NULL]
    IN IF c.wait # NULL
       THEN InWait(c.h, item, c.wait, "StartRundown", NULL, NoRet)
       ELSE InRundown(c.h, b, item, Range(c.h.If[b].Clients), <<>>)

\* XdpIfpInterfaceDelete up to the loop of the rundown.
XdpIfpInterfaceDelete(h, b) ==
    XdpIfpStartRundown([h EXCEPT !.If[b].BindingDeleting = TRUE], b,
                       DeleteItem)

\* XdpIfpInterfaceNmrDelete up to the loop of the rundown.
XdpIfpInterfaceNmrDelete(h, b, n) ==
    IF h.Nm[n].NmrHandle # NULL
    THEN LET h1 == ASSERT_(h, h.If[b].NmrDeleting = FALSE,
                           "InterfaceNmrDelete:NmrDeleting==FALSE")
         IN XdpIfpStartRundown([h1 EXCEPT !.If[b].NmrDeleting = TRUE], b,
                               NmrItem(n))
    ELSE Returned(h, b, NmrItem(n),
                  [op |-> "InterfaceNmrDelete", Interface |-> b, Nmr |-> n])

\* Faulty variants of the loop: the entry is notified while it is linked,
\* and the entry's reference is released before the entry is notified.
StartRundownKeepsLinked(h, b, w) ==
    IF h.If[b].Clients = <<>>
    THEN Returned(h, b, w.item,
                  [op |-> "StartRundown", Interface |-> b, item |-> w.item,
                   linked |-> w.walkStart, notified |-> w.walkNotified,
                   registered |-> w.walkRegistered,
                   deregistered |-> w.walkDeregistered])
    ELSE [h |-> h,
          w |-> [w EXCEPT !.pc = "notify", !.entry = Head(h.If[b].Clients),
                          !.walkNotified = Append(@, Head(h.If[b].Clients))],
          ret |-> NoRet]

StartRundownReleasesFirst(h, b, w) ==
    IF h.If[b].Clients = <<>>
    THEN Returned(h, b, w.item,
                  [op |-> "StartRundown", Interface |-> b, item |-> w.item,
                   linked |-> w.walkStart, notified |-> w.walkNotified,
                   registered |-> w.walkRegistered,
                   deregistered |-> w.walkDeregistered])
    ELSE LET e == Head(h.If[b].Clients) IN
         [h |-> XdpIfpDereferenceInterface(UnlinkEntry(h, e), b),
          w |-> [w EXCEPT !.pc = "notify", !.entry = e,
                          !.walkNotified = Append(@, e)],
          ret |-> NoRet]

\* One turn of the loop of XdpIfpStartRundown: unlink the first client and
\* call its BindingDetached, or leave the loop and return from the routine.
StartRundownNext(h, b, w) ==
    IF h.If[b].Clients = <<>>
    THEN Returned(h, b, w.item,
                  [op |-> "StartRundown", Interface |-> b, item |-> w.item,
                   linked |-> w.walkStart, notified |-> w.walkNotified,
                   registered |-> w.walkRegistered,
                   deregistered |-> w.walkDeregistered])
    ELSE LET e == Head(h.If[b].Clients) IN
         [h |-> UnlinkEntry(h, e),
          w |-> [w EXCEPT !.pc = "notify", !.entry = e,
                          !.walkNotified = Append(@, e)],
          ret |-> NoRet]

\* BindingDetached returned: drop the reference the entry held.
StartRundownNotified(h, b, w) ==
    [h |-> XdpIfpDereferenceInterface(h, b),
     w |-> [w EXCEPT !.pc = "rundown", !.entry = NULL],
     ret |-> NoRet]

\* XdpIfpCloseInterface returns, to where it was called from.
CloseReturned(h, b, w) ==
    LET h1 == XdpIfpCloseInterfaceEnd(h, b, w.waitNmr) IN
    IF w.cont = "StartRundown"
    THEN InRundown(h1, b, w.item, Range(h1.If[b].Clients), <<>>)
    ELSE IF w.cont = "notify"
    THEN [h |-> h1,
          w |-> [w EXCEPT !.pc = "notify", !.waitNmr = NULL,
                          !.cont = "none"],
          ret |-> NoRet]
    ELSE IF w.cont = "OpenInterface"
    THEN Returned(OpenInterfaceExit(h1, b), b, w.item, w.ret)
    ELSE Returned(h1, b, w.item, w.ret)

(***************************************************************************)
(* Queue creation and deletion.                                            *)
(***************************************************************************)
QueueKinds == {"Rx", "Tx"}
CreateStatuses == {STATUS_SUCCESS} \cup ProviderErrors

\* A faulty variant: the provider-usage reference is kept when the
\* provider's create call fails.
CreateQueueKeepsReference(b, r, createStatus) ==
    IF ~NT_SUCCESS(r.Status)
    THEN [h |-> r.h, Status |-> r.Status, wait |-> r.wait,
          cont |-> "OpenInterface", called |-> FALSE, opened |-> r.opened,
          stage |-> r.stage, usage |-> r.usage, nmr |-> r.nmr,
          provider |-> "none"]
    ELSE [h |-> r.h, Status |-> createStatus, wait |-> NULL,
          cont |-> "return", called |-> TRUE, opened |-> r.opened,
          stage |-> r.stage, usage |-> r.usage, nmr |-> r.nmr,
          provider |-> createStatus]

\* XdpIfCreateRxQueue / XdpIfCreateTxQueue from the return of
\* XdpIfpReferenceProvider, r, until they return or block; createStatus is
\* what the provider's CreateRxQueue/CreateTxQueue returns.
XdpIfCreateQueueReferenced(b, r, createStatus) ==
    IF ~NT_SUCCESS(r.Status)
    THEN [h |-> r.h, Status |-> r.Status, wait |-> r.wait,
          cont |-> "OpenInterface", called |-> FALSE, opened |-> r.opened,
          stage |-> r.stage, usage |-> r.usage, nmr |-> r.nmr,
          provider |-> "none"]
    ELSE IF ~NT_SUCCESS(createStatus)
    THEN LET d == XdpIfpDereferenceProvider(r.h, b) IN
         [h |-> d.h, Status |-> createStatus, wait |-> d.wait,
          cont |-> "return", called |-> TRUE, opened |-> r.opened,
          stage |-> r.stage, usage |-> r.usage, nmr |-> r.nmr,
          provider |-> createStatus]
    ELSE [h |-> r.h, Status |-> STATUS_SUCCESS, wait |-> NULL,
          cont |-> "return", called |-> TRUE, opened |-> r.opened,
          stage |-> r.stage, usage |-> r.usage, nmr |-> r.nmr,
          provider |-> createStatus]

\* XdpIfCreateRxQueue / XdpIfCreateTxQueue until they return or block.
XdpIfCreateQueue(h, b, p, createStatus) ==
    XdpIfCreateQueueReferenced(b, XdpIfpReferenceProvider(h, b, p),
                               createStatus)

\* XdpIfDeleteRxQueue / XdpIfDeleteTxQueue until they return or block.
XdpIfDeleteQueue(h, b) == XdpIfpDereferenceProvider(h, b)

(***************************************************************************)
(* Actions.                                                                *)
(***************************************************************************)
Init ==
    /\ XdpInterfaceSets = <<>>
    /\ Interface = [b \in Bindings |-> NoInterface]
    /\ Nmr = [n \in NmrIds |-> NoNmr]
    /\ WorkQueue = [b \in Bindings |-> <<>>]
    /\ worker = [b \in Bindings |-> IdleWorker]
    /\ Entry = [e \in Entries |-> NoEntry]
    /\ held = [b \in Bindings |-> 0]
    /\ queues = [b \in Bindings |-> 0]
    /\ asserts = {}
    /\ ret = NoRet

Live(b) == Interface[b].alloc = "live"

\* XdpIfDereferenceBinding.  A consumer keeps a handle while it owns queues
\* on the binding or has work of its own queued or running on it.
ClientWorkPending(b) ==
    \/ \E i \in 1..Len(WorkQueue[b]) : WorkQueue[b][i].kind = "client"
    \/ (worker[b].pc # "idle" /\ worker[b].item.kind = "client")

DereferenceBinding(b) ==
    /\ held[b] > 0
    /\ held[b] = 1 => (queues[b] = 0 /\ ~ClientWorkPending(b))
    /\ Commit(XdpIfpDereferenceInterface(Heap, b))
    /\ held' = [held EXCEPT ![b] = @ - 1]
    /\ ret' = NoRet
    /\ UNCHANGED <<XdpInterfaceSets, worker, queues>>

\* XdpIfQueueWorkItem by a consumer that holds a handle.
QueueWorkItem(b) ==
    /\ held[b] > 0
    /\ Sum([c \in Bindings |->
               Cardinality({i \in 1..Len(WorkQueue[c]) :
                               WorkQueue[c][i].kind = "client"})]) < MaxWork
    /\ Commit(XdpIfQueueWorkItem(Heap, b, ClientItem))
    /\ ret' = NoRet
    /\ UNCHANGED <<XdpInterfaceSets, worker, held, queues>>

\* A faulty variant: the next item is started while the worker is blocked in
\* the wait of XdpIfpCloseNmrInterface.
DequeueWhileWaiting(b, kind) ==
    /\ worker[b].pc \in {"idle", "wait"}
    /\ WorkQueue[b] # <<>>
    /\ Head(WorkQueue[b]).kind = kind

\* XdpIfpInterfaceWorker takes the next item of the list once the routine of
\* the one before has returned.
Dequeue(b, kind) ==
    /\ worker[b].pc = "idle"
    /\ WorkQueue[b] # <<>>
    /\ Head(WorkQueue[b]).kind = kind

Popped(b) == [Heap EXCEPT !.wq[b] = Tail(@)]

Step(b, r) ==
    /\ Commit(r.h)
    /\ worker' = [worker EXCEPT ![b] = r.w]
    /\ ret' = r.ret

WorkerInterfaceDelete(b) ==
    /\ Dequeue(b, "delete")
    /\ Step(b, XdpIfpInterfaceDelete(Popped(b), b))
    /\ UNCHANGED <<XdpInterfaceSets, held, queues>>

WorkerInterfaceNmrDelete(b) ==
    /\ Dequeue(b, "nmr")
    /\ Step(b, XdpIfpInterfaceNmrDelete(Popped(b), b, Head(WorkQueue[b]).nmr))
    /\ UNCHANGED <<XdpInterfaceSets, held, queues>>

\* A faulty variant: the wait returns whether or not the event is set.
WaitReturnsAtOnce(n) == TRUE

\* XdpIfpCloseNmrInterface, line 234: KeWaitForSingleObject on
\* Nmr->DetachNotification returns once the event is set.
DetachNotificationSet(n) == Nmr[n].DetachNotification

WorkerCloseWait(b) ==
    /\ worker[b].pc = "wait"
    /\ DetachNotificationSet(worker[b].waitNmr)
    /\ Step(b, CloseReturned(Heap, b, worker[b]))
    /\ UNCHANGED <<XdpInterfaceSets, held, queues>>

WorkerRundownNext(b) ==
    /\ worker[b].pc = "rundown"
    /\ Step(b, StartRundownNext(Heap, b, worker[b]))
    /\ UNCHANGED <<XdpInterfaceSets, held, queues>>

\* The client's BindingDetached returns.
WorkerNotifyReturn(b) ==
    /\ worker[b].pc = "notify"
    /\ Step(b, StartRundownNotified(Heap, b, worker[b]))
    /\ UNCHANGED <<XdpInterfaceSets, held, queues>>

\* Inside BindingDetached the client deletes a queue it owns.
NotifyDeleteQueue(b, kind) ==
    /\ worker[b].pc = "notify"
    /\ queues[b] > 0
    /\ LET d == XdpIfDeleteQueue(Heap, b)
           w == worker[b]
       IN IF d.wait # NULL
          THEN Step(b, [h |-> d.h,
                        w |-> [w EXCEPT !.pc = "wait", !.waitNmr = d.wait,
                                        !.cont = "notify"],
                        ret |-> NoRet])
          ELSE Step(b, [h |-> d.h, w |-> w,
                        ret |-> NoRet])
    /\ queues' = [queues EXCEPT ![b] = @ - 1]
    /\ UNCHANGED <<XdpInterfaceSets, held>>

\* Inside BindingDetached the client deregisters an entry: the one being
\* notified, or another one of this binding.
NotifyDeregisterClient(b, e) ==
    /\ worker[b].pc = "notify"
    /\ Entry[e].Link \in {NULL, b}
    /\ LET h1 == XdpIfDeregisterClient(Heap, b, e)
       IN Step(b, [h |-> h1,
                   w |-> [worker[b] EXCEPT
                             !.walkDeregistered =
                                 IF Entry[e].Link = b THEN @ \cup {e} ELSE @],
                   ret |-> [op |-> "DeregisterClient", Interface |-> b,
                            entry |-> e,
                            released |-> Interface[b].ReferenceCount
                                           - h1.If[b].ReferenceCount]])
    /\ UNCHANGED <<XdpInterfaceSets, held, queues>>

\* Inside BindingDetached the client registers an entry on this binding.
NotifyRegisterClient(b, ClientId, Key, e) ==
    /\ worker[b].pc = "notify"
    /\ worker[b].walkRegistered < MaxReRegister
    /\ Entry[e].Link = NULL
    /\ \A c \in Bindings \ {b} : worker[c].entry # e
    /\ LET r == XdpIfRegisterClient(Heap, b, ClientId, Key, e)
           ok == NT_SUCCESS(r.Status)
       IN Step(b, [h |-> r.h,
                   w |-> [worker[b] EXCEPT
                             !.walkRegistered = IF ok THEN @ + 1 ELSE @],
                   ret |-> [op |-> "RegisterClient", Interface |-> b,
                            entry |-> e, ClientId |-> ClientId, Key |-> Key,
                            Status |-> r.Status,
                            taken |-> r.h.If[b].ReferenceCount
                                        - Interface[b].ReferenceCount]])
    /\ UNCHANGED <<XdpInterfaceSets, held, queues>>

\* A consumer's work item registers a client entry.
WorkerRegisterClient(b, ClientId, Key, e) ==
    /\ Dequeue(b, "client")
    /\ Entry[e].Link = NULL
    /\ \A c \in Bindings : worker[c].entry # e
    /\ LET r == XdpIfRegisterClient(Popped(b), b, ClientId, Key, e) IN
       Step(b, Returned(r.h, b, ClientItem,
                [op |-> "RegisterClient", Interface |-> b, entry |-> e,
                 ClientId |-> ClientId, Key |-> Key, Status |-> r.Status,
                 taken |-> r.h.If[b].ReferenceCount
                             - Popped(b).If[b].ReferenceCount]))
    /\ UNCHANGED <<XdpInterfaceSets, held, queues>>

\* A consumer's work item deregisters a client entry of this binding.
WorkerDeregisterClient(b, e) ==
    /\ Dequeue(b, "client")
    /\ Entry[e].Link \in {NULL, b}
    /\ LET h1 == XdpIfDeregisterClient(Popped(b), b, e) IN
       Step(b, Returned(h1, b, ClientItem,
                [op |-> "DeregisterClient", Interface |-> b, entry |-> e,
                 released |-> Interface[b].ReferenceCount
                                - h1.If[b].ReferenceCount]))
    /\ UNCHANGED <<XdpInterfaceSets, held, queues>>

NmrAvailable == \E n \in NmrIds : Nmr[n].alloc = "none"

\* The work item that called XdpIfCreateRxQueue / XdpIfCreateTxQueue goes
\* on from c, where the call returned or blocked: the worker waits or takes
\* the next item, and the consumer owns a queue if the call succeeded.
CreateQueueReturn(c, b) ==
    [op |-> "CreateQueue", Interface |-> b, Status |-> c.Status,
     called |-> c.called, opened |-> c.opened, stage |-> c.stage,
     usage |-> c.usage, nmr |-> c.nmr, provider |-> c.provider]

CreateQueueReturns(b, c) ==
    /\ IF c.wait # NULL
       THEN Step(b, InWait(c.h, ClientItem, c.wait, c.cont, NULL,
                           CreateQueueReturn(c, b)))
       ELSE Step(b, Returned(c.h, b, ClientItem, CreateQueueReturn(c, b)))
    /\ queues' = [queues EXCEPT ![b] = IF NT_SUCCESS(c.Status) THEN @ + 1
                                       ELSE @]

\* A consumer's work item creates an RX or TX queue.
WorkerCreateQueue(b, kind, p, createStatus) ==
    /\ Dequeue(b, "client")
    /\ held[b] > 0
    /\ Sum(queues) < MaxQueues
    /\ NmrAvailable
    /\ CreateQueueReturns(b, XdpIfCreateQueue(Popped(b), b, p, createStatus))
    /\ UNCHANGED <<XdpInterfaceSets, held>>

\* A consumer's work item deletes a queue it owns.
WorkerDeleteQueue(b, kind) ==
    /\ Dequeue(b, "client")
    /\ queues[b] > 0
    /\ LET d == XdpIfDeleteQueue(Popped(b), b)
           r == NoRet
       IN IF d.wait # NULL
          THEN Step(b, InWait(d.h, ClientItem, d.wait, "return", NULL, r))
          ELSE Step(b, Returned(d.h, b, ClientItem, r))
    /\ queues' = [queues EXCEPT ![b] = @ - 1]
    /\ UNCHANGED <<XdpInterfaceSets, held>>

\* XdpIfpDetachNmrInterface, called by NMR once for every attachment that
\* XdpOpenProvider made: when the provider detaches, or when XdpCloseProvider
\* is called.  First KeSetEvent ...
DetachSignal(n) ==
    /\ Nmr[n].opened
    /\ Nmr[n].detach = "none"
    /\ Nmr' = [Nmr EXCEPT ![n].DetachNotification = TRUE,
                          ![n].detach = "signalled"]
    /\ ret' = NoRet
    /\ UNCHANGED <<XdpInterfaceSets, Interface, WorkQueue, worker, Entry,
                   held, queues, asserts>>

\* A faulty variant: the reference taken by XdpIfpOpenInterface is kept.
DetachKeepsReference(h, n) ==
    XdpIfQueueWorkItem(h, h.Nm[n].BindingHandle, NmrItem(n))

\* ... then the work item is queued and the reference taken by
\* XdpIfpOpenInterface is released.
XdpIfpDetachNmrInterfaceQueue(h, n) ==
    LET b == h.Nm[n].BindingHandle IN
    XdpIfpDereferenceInterface(XdpIfQueueWorkItem(h, b, NmrItem(n)), b)

DetachQueue(n) ==
    /\ Nmr[n].detach = "signalled"
    /\ Commit([XdpIfpDetachNmrInterfaceQueue(Heap, n)
                  EXCEPT !.Nm[n].detach = "done"])
    /\ ret' = NoRet
    /\ UNCHANGED <<XdpInterfaceSets, worker, held, queues>>

Next ==
    \/ \E i \in IfIndexes, ok \in BOOLEAN : CreateInterfaceSet(i, ok)
    \/ \E k \in 1..Len(XdpInterfaceSets) : DeleteInterfaceSet(k)
    \/ \E k \in 1..Len(XdpInterfaceSets) :
          \E batch \in AddBatches(XdpInterfaceSets[k]) :
             AddInterfaces(k, batch)
    \/ \E hs \in SeqsOf(ProviderHandles) : RemoveInterfaces(hs)
    \/ \E i \in IfIndexes, hk \in HookIdLists, m \in RequiredModes :
          FindAndReferenceBinding(i, hk, m)
    \/ \E b \in Bindings : DereferenceBinding(b)
    \/ \E b \in Bindings : QueueWorkItem(b)
    \/ \E b \in Bindings : WorkerInterfaceDelete(b)
    \/ \E b \in Bindings : WorkerInterfaceNmrDelete(b)
    \/ \E b \in Bindings : WorkerCloseWait(b)
    \/ \E b \in Bindings : WorkerRundownNext(b)
    \/ \E b \in Bindings : WorkerNotifyReturn(b)
    \/ \E b \in Bindings, k \in QueueKinds : NotifyDeleteQueue(b, k)
    \/ \E b \in Bindings, e \in Entries : NotifyDeregisterClient(b, e)
    \/ \E b \in Bindings, c \in ClientIds, k \in Keys, e \in Entries :
          NotifyRegisterClient(b, c, k, e)
    \/ \E b \in Bindings, c \in ClientIds, k \in Keys, e \in Entries :
          WorkerRegisterClient(b, c, k, e)
    \/ \E b \in Bindings, e \in Entries : WorkerDeregisterClient(b, e)
    \/ \E b \in Bindings, k \in QueueKinds, p \in ProviderBehaviours,
          s \in CreateStatuses : WorkerCreateQueue(b, k, p, s)
    \/ \E b \in Bindings, k \in QueueKinds : WorkerDeleteQueue(b, k)
    \/ \E n \in NmrIds : DetachSignal(n)
    \/ \E n \in NmrIds : DetachQueue(n)

Spec == Init /\ [][Next]_vars

(***************************************************************************)
(* Scenarios: the same actions under environments that use part of the     *)
(* interface, so that each is explored exhaustively.                       *)
(***************************************************************************)
\* The registry and the lookup: providers add and remove batches, consumers
\* look bindings up and release them, the deletion work items run.
NextRegistry ==
    \/ \E i \in IfIndexes, ok \in BOOLEAN : CreateInterfaceSet(i, ok)
    \/ \E k \in 1..Len(XdpInterfaceSets) : DeleteInterfaceSet(k)
    \/ \E k \in 1..Len(XdpInterfaceSets) :
          \E batch \in AddBatches(XdpInterfaceSets[k]) :
             AddInterfaces(k, batch)
    \/ \E hs \in SeqsOf(ProviderHandles) : RemoveInterfaces(hs)
    \/ \E i \in IfIndexes, m \in RequiredModes :
          FindAndReferenceBinding(i, <<>>, m)
    \/ \E b \in Bindings : DereferenceBinding(b)
    \/ \E b \in Bindings : WorkerInterfaceDelete(b)
    \/ \E b \in Bindings : WorkerRundownNext(b)

SpecRegistry == Init /\ [][NextRegistry]_vars

\* The number of descriptors of a batch that can be added.
GoodCount(batch) == Cardinality({i \in DOMAIN batch : Creates(batch[i])})

\* One binding: the provider creates its interface set, adds its native
\* interface once (alone or in a batch that fails) and removes it; consumers
\* find the binding and, with the NMR provider, do all they can on it.
\* RX and TX queues go through the same code, so RX stands for both, and
\* each client entry registers under a key of its own.
NextBinding ==
    \/ XdpInterfaceSets = <<>> /\ CreateInterfaceSet(1, TRUE)
    \/ /\ Unallocated = Bindings
       /\ \E k \in 1..Len(XdpInterfaceSets) :
          \E batch \in AddBatches(XdpInterfaceSets[k]) :
             /\ GoodCount(batch) <= 1
             /\ \A i \in DOMAIN batch :
                   Creates(batch[i]) =>
                       batch[i].Mode = XDP_INTERFACE_MODE_NATIVE
             /\ AddInterfaces(k, batch)
    \/ \E hs \in SeqsOf(ProviderHandles) : RemoveInterfaces(hs)
    \/ \E i \in IfIndexes :
          /\ XdpIfpFindInterface(Interface, XdpInterfaceSets, i, <<>>, <<>>)
                # NULL
          /\ FindAndReferenceBinding(i, <<>>, <<>>)
    \/ \E b \in Bindings : DereferenceBinding(b)
    \/ \E b \in Bindings : QueueWorkItem(b)
    \/ \E b \in Bindings : WorkerInterfaceDelete(b)
    \/ \E b \in Bindings : WorkerInterfaceNmrDelete(b)
    \/ \E b \in Bindings : WorkerCloseWait(b)
    \/ \E b \in Bindings : WorkerRundownNext(b)
    \/ \E b \in Bindings : WorkerNotifyReturn(b)
    \/ \E b \in Bindings, k \in {"Rx"} : NotifyDeleteQueue(b, k)
    \/ \E b \in Bindings, e \in Entries : NotifyDeregisterClient(b, e)
    \/ \E b \in Bindings, c \in ClientIds, k \in Keys, e \in Entries :
          /\ (k = "A") = (e = 1)
          /\ NotifyRegisterClient(b, c, k, e)
    \/ \E b \in Bindings, c \in ClientIds, k \in Keys, e \in Entries :
          /\ (k = "A") = (e = 1)
          /\ WorkerRegisterClient(b, c, k, e)
    \/ \E b \in Bindings, e \in Entries : WorkerDeregisterClient(b, e)
    \/ \E b \in Bindings, k \in {"Rx"}, p \in ProviderBehaviours,
          s \in CreateStatuses :
             WorkerCreateQueue(b, k, p, s)
    \/ \E b \in Bindings, k \in {"Rx"} : WorkerDeleteQueue(b, k)
    \/ \E n \in NmrIds : DetachSignal(n)
    \/ \E n \in NmrIds : DetachQueue(n)

SpecBinding == Init /\ [][NextBinding]_vars


\* The binding clients: the provider adds its interfaces once, in one batch,
\* and removes them; consumers register and deregister client entries and
\* own no queues, so that no provider attachment is opened.
\* Lookups with every hook list and mode filter, over registries built from
\* well-formed descriptors.
NextLookup ==
    \/ \E i \in IfIndexes : CreateInterfaceSet(i, TRUE)
    \/ \E k \in 1..Len(XdpInterfaceSets) :
          \E batch \in AddBatches(XdpInterfaceSets[k]) :
             /\ GoodCount(batch) = Len(batch)
             /\ AddInterfaces(k, batch)
    \/ \E hs \in SeqsOf(ProviderHandles) : RemoveInterfaces(hs)
    \/ \E i \in IfIndexes, hk \in HookIdLists, m \in RequiredModes :
          FindAndReferenceBinding(i, hk, m)
    \/ \E b \in Bindings : DereferenceBinding(b)
    \/ \E b \in Bindings : WorkerInterfaceDelete(b)
    \/ \E b \in Bindings : WorkerRundownNext(b)

SpecLookup == Init /\ [][NextLookup]_vars

NextDispatch ==
    /\ ret = NoRet
    /\ \E Versions \in VersionArrays, accept \in SUBSET (1..MaxVersions) :
           RequestClientDispatch(Versions, accept)

SpecDispatch == Init /\ [][NextDispatch]_vars

NextClients ==
    \/ \E i \in IfIndexes :
          XdpInterfaceSets = <<>> /\ CreateInterfaceSet(i, TRUE)
    \/ /\ Unallocated = Bindings
       /\ \E k \in 1..Len(XdpInterfaceSets) :
          \E batch \in AddBatches(XdpInterfaceSets[k]) :
             /\ AddInterfaces(k, batch)
    \/ \E hs \in SeqsOf(ProviderHandles) : RemoveInterfaces(hs)
    \/ \E i \in IfIndexes, m \in RequiredModes :
          /\ XdpIfpFindInterface(Interface, XdpInterfaceSets, i, <<>>, m)
                # NULL
          /\ FindAndReferenceBinding(i, <<>>, m)
    \/ \E b \in Bindings : DereferenceBinding(b)
    \/ \E b \in Bindings : QueueWorkItem(b)
    \/ \E b \in Bindings : WorkerInterfaceDelete(b)
    \/ \E b \in Bindings : WorkerRundownNext(b)
    \/ \E b \in Bindings : WorkerNotifyReturn(b)
    \/ \E b \in Bindings, e \in Entries : NotifyDeregisterClient(b, e)
    \/ \E b \in Bindings, c \in ClientIds, k \in Keys, e \in Entries :
          NotifyRegisterClient(b, c, k, e)
    \/ \E b \in Bindings, c \in ClientIds, k \in Keys, e \in Entries :
          WorkerRegisterClient(b, c, k, e)
    \/ \E b \in Bindings, e \in Entries : WorkerDeregisterClient(b, e)

SpecClients == Init /\ [][NextClients]_vars

\* Capability blobs at the edges of 32-bit arithmetic: headers below, at and
\* above the minimum, version counts whose product with sizeof(XDP_VERSION)
\* just fits in, just overflows and far overflows a UINT32, offsets whose sum
\* with the product just fits and just overflows, and total sizes around
\* the end of the version array.
RevisionSamples == {0, XDP_CAPABILITIES_EX_REVISION_1, 2}
HeaderSizeSamples ==
    {XDP_SIZEOF_CAPABILITIES_EX_REVISION_1 - 1,
     XDP_SIZEOF_CAPABILITIES_EX_REVISION_1}
CountSamples ==
    {U32(0), U32(1), U32(2), U32(357913941), U32(357913942), U32Max}
OffsetSamples ==
    {U32(0), U32(XDP_SIZEOF_CAPABILITIES_EX_REVISION_1),
     [hi |-> HALF - 1, lo |-> HALF - 1 - SIZEOF_XDP_VERSION],
     [hi |-> HALF - 1, lo |-> HALF - SIZEOF_XDP_VERSION], U32Max}
TotalSizeSamples ==
    {U32(0), U32(XDP_SIZEOF_CAPABILITIES_EX_REVISION_1 - 1),
     U32(XDP_SIZEOF_CAPABILITIES_EX_REVISION_1),
     U32(XDP_SIZEOF_CAPABILITIES_EX_REVISION_1 + SIZEOF_XDP_VERSION - 1),
     U32(XDP_SIZEOF_CAPABILITIES_EX_REVISION_1 + SIZEOF_XDP_VERSION),
     U32Max}

CapabilityBlobs ==
    {[CapabilitiesEx |-> CapsEx(rev, size, count, offset, <<Version(1, 0, 0)>>),
      CapabilitiesSize |-> total] :
        rev \in RevisionSamples, size \in HeaderSizeSamples,
        count \in CountSamples, offset \in OffsetSamples,
        total \in TotalSizeSamples}

\* XDP_CAPABILITIES_INTERNAL passes the hook list by pointer and count, next
\* to the pointer to the blob and the blob's size.  HooksOffset is where the
\* array lies, counted in bytes from the start of the blob: behind the
\* header, or behind everything the declared size covers.
HooksOffsetSamples == {U32(XDP_SIZEOF_CAPABILITIES_EX_REVISION_1), U32Max}

CapabilityDescriptors ==
    {[Mode |-> m, Caps |-> caps, Hooks |-> <<HookRx>>, HooksOffset |-> at,
      allocOk |-> TRUE, workQueueOk |-> TRUE] :
        m \in Modes, caps \in CapabilityBlobs, at \in HooksOffsetSamples}

\* XdpIfAddInterfaces with InterfaceCount 1 and any capabilities.
AddInterface(pos, AddIf) ==
    /\ pos \in 1..Len(XdpInterfaceSets)
    /\ XdpInterfaceSets[pos].Interfaces[AddIf.Mode] = NULL
    /\ Unallocated # {}
    /\ LET r == XdpIfAddInterfaces(Heap, XdpInterfaceSets, pos, <<AddIf>>) IN
       /\ Commit(r.h)
       /\ XdpInterfaceSets' = r.sets
       /\ ret' = [op |-> "AddInterface", AddIf |-> AddIf,
                  Status |-> r.Status, handles |-> r.handles]
    /\ UNCHANGED <<worker, held, queues>>

\* Capability validation: a provider creates its interface set, then adds
\* one interface with any capability blob and, if it was added, removes it.
NextCapabilities ==
    \/ XdpInterfaceSets = <<>> /\ CreateInterfaceSet(1, TRUE)
    \/ /\ ret.op = "CreateInterfaceSet"
       /\ \E AddIf \in CapabilityDescriptors : AddInterface(1, AddIf)
    \/ \E hs \in SeqsOf(ProviderHandles) : RemoveInterfaces(hs)
    \/ \E b \in Bindings : WorkerInterfaceDelete(b)
    \/ \E b \in Bindings : WorkerRundownNext(b)

SpecCapabilities == Init /\ [][NextCapabilities]_vars

\* XdpIfpReferenceProvider, line 1098: Interface->ProviderReference++ is a
\* plain read-modify-write of a ULONG.  When two threads execute it at the
\* same time both may read the old value, so that one increment is lost.
ConcurrentIncrements(v) == {v + 1, v + 2}

\* Two threads that hold the binding call XdpIfCreateRxQueue and
\* XdpIfCreateTxQueue at the same time, outside the binding's work queue, on
\* an attachment that is open and whose count has lost no update yet; the
\* provider creates both queues.
ConcurrentCreateQueue(b, v) ==
    /\ Live(b)
    /\ Interface[b].ProviderReference = queues[b]
    /\ held[b] > 0
    /\ worker[b].pc = "idle"
    /\ ~Rundown(Interface[b])
    /\ Interface[b].InterfaceContext # NULL
    /\ Sum(queues) < MaxQueues
    /\ v \in ConcurrentIncrements(Interface[b].ProviderReference)
    /\ Interface' = [Interface EXCEPT ![b].ProviderReference = v]
    /\ queues' = [queues EXCEPT ![b] = @ + 2]
    /\ ret' = [op |-> "ConcurrentCreateQueue", Interface |-> b]
    /\ UNCHANGED <<XdpInterfaceSets, Nmr, WorkQueue, worker, Entry, held,
                   asserts>>

\* The provider that opens and creates without failures.
GoodProvider == ProviderBehaviour(TRUE, TRUE, {1, 2}, TRUE, FALSE, TRUE)

\* The reference counts under concurrency: lookups and releases by
\* consumer threads, removal by the provider, the detach callback and the
\* worker interleave, and queues are created from work items or, at the same
\* time, by two threads outside the work queue.
NextCounts ==
    \/ XdpInterfaceSets = <<>> /\ CreateInterfaceSet(1, TRUE)
    \/ /\ Unallocated = Bindings
       /\ AddInterfaces(1, <<[Mode |-> XDP_INTERFACE_MODE_NATIVE,
                              Caps |-> GoodDescriptor(
                                          XDP_INTERFACE_MODE_NATIVE).Caps,
                              Hooks |-> <<HookTx>>, allocOk |-> TRUE,
                              workQueueOk |-> TRUE]>>)
    \/ \E hs \in SeqsOf(ProviderHandles) : RemoveInterfaces(hs)
    \/ \E i \in IfIndexes :
          /\ XdpIfpFindInterface(Interface, XdpInterfaceSets, i, <<>>, <<>>)
                # NULL
          /\ FindAndReferenceBinding(i, <<>>, <<>>)
    \/ \E b \in Bindings : DereferenceBinding(b)
    \/ \E b \in Bindings : QueueWorkItem(b)
    \/ \E b \in Bindings : WorkerInterfaceDelete(b)
    \/ \E b \in Bindings : WorkerInterfaceNmrDelete(b)
    \/ \E b \in Bindings : WorkerCloseWait(b)
    \/ \E b \in Bindings : WorkerRundownNext(b)
    \/ \E b \in Bindings, s \in CreateStatuses :
          WorkerCreateQueue(b, "Rx", GoodProvider, s)
    \/ \E b \in Bindings : WorkerDeleteQueue(b, "Rx")
    \/ \E b \in Bindings :
          \E v \in ConcurrentIncrements(Interface[b].ProviderReference) :
             ConcurrentCreateQueue(b, v)
    \/ \E n \in NmrIds : DetachSignal(n)
    \/ \E n \in NmrIds : DetachQueue(n)

SpecCounts == Init /\ [][NextCounts]_vars

\* Removal to its end: the provider adds one native interface and removes
\* it; a consumer finds the binding, registers a client entry, creates and
\* deletes queues from work items or inside BindingDetached and releases its
\* handle; once the binding is in rundown the consumer submits work only
\* while it has queues to delete; an open succeeds, with or without an
\* interface context, or fails in XdpOpenProvider.
RundownProviders ==
    {GoodProvider,
     ProviderBehaviour(TRUE, TRUE, {1, 2}, FALSE, TRUE, TRUE),
     ProviderBehaviour(TRUE, FALSE, {}, FALSE, FALSE, TRUE)}

\* The work item of a consumer runs: it registers or deregisters the client
\* entry, or creates or deletes a queue.
ConsumerItemRuns(b) ==
    \/ \E c \in ClientIds : WorkerRegisterClient(b, c, "A", 1)
    \/ WorkerDeregisterClient(b, 1)
    \/ \E p \in RundownProviders :
          WorkerCreateQueue(b, "Rx", p, STATUS_SUCCESS)
    \/ WorkerDeleteQueue(b, "Rx")

NextRundown ==
    \/ XdpInterfaceSets = <<>> /\ CreateInterfaceSet(1, TRUE)
    \/ /\ Unallocated = Bindings
       /\ AddInterfaces(1, <<[Mode |-> XDP_INTERFACE_MODE_NATIVE,
                              Caps |-> GoodDescriptor(
                                          XDP_INTERFACE_MODE_NATIVE).Caps,
                              Hooks |-> <<HookTx>>, allocOk |-> TRUE,
                              workQueueOk |-> TRUE]>>)
    \/ \E hs \in SeqsOf(ProviderHandles) : RemoveInterfaces(hs)
    \/ \E i \in IfIndexes :
          /\ XdpIfpFindInterface(Interface, XdpInterfaceSets, i, <<>>, <<>>)
                # NULL
          /\ FindAndReferenceBinding(i, <<>>, <<>>)
    \/ \E b \in Bindings : DereferenceBinding(b)
    \/ \E b \in Bindings :
          /\ Rundown(Interface[b]) => queues[b] > 0
          /\ QueueWorkItem(b)
    \/ \E b \in Bindings : WorkerInterfaceDelete(b)
    \/ \E b \in Bindings : WorkerInterfaceNmrDelete(b)
    \/ \E b \in Bindings : WorkerCloseWait(b)
    \/ \E b \in Bindings : WorkerRundownNext(b)
    \/ \E b \in Bindings : WorkerNotifyReturn(b)
    \/ \E b \in Bindings : NotifyDeleteQueue(b, "Rx")
    \/ \E b \in Bindings : ConsumerItemRuns(b)
    \/ \E n \in NmrIds : DetachSignal(n)
    \/ \E n \in NmrIds : DetachQueue(n)

\* The work-queue worker is scheduled fairly: it takes the item at the head
\* of a queue, its wait ends once the event is set, and a client's
\* BindingDetached returns.
WorkerFairness ==
    \A b \in Bindings :
        /\ WF_vars(WorkerInterfaceDelete(b))
        /\ WF_vars(WorkerInterfaceNmrDelete(b))
        /\ WF_vars(WorkerCloseWait(b))
        /\ WF_vars(WorkerRundownNext(b))
        /\ WF_vars(WorkerNotifyReturn(b))
        /\ WF_vars(ConsumerItemRuns(b))

\* NMR calls the detach callback of every attachment that was opened, and
\* the callback runs to its end.
ProviderFairness ==
    \A n \in NmrIds : WF_vars(DetachSignal(n)) /\ WF_vars(DetachQueue(n))

\* Once the binding is in rundown a consumer queues the work that deletes
\* its queues, the work deletes them, and the consumer releases its handle.
ConsumerFairness ==
    \A b \in Bindings :
        /\ SF_vars(Rundown(Interface[b]) /\ queues[b] > 0 /\ QueueWorkItem(b))
        /\ SF_vars(WorkerDeleteQueue(b, "Rx"))
        /\ SF_vars(Rundown(Interface[b]) /\ DereferenceBinding(b))

SpecRundown ==
    /\ Init /\ [][NextRundown]_vars
    /\ WorkerFairness /\ ProviderFairness /\ ConsumerFairness

(***************************************************************************)
(* Properties.                                                             *)
(***************************************************************************)
\* C1: under every interleaving of lookups, releases, client registration
\* and deregistration, work items, removal and provider detach, the
\* existence count of a binding never goes below zero and the binding is
\* freed exactly once, in the step in which the count reaches zero: an
\* allocated binding is live exactly while its count is at least one, and
\* has been freed exactly once as soon as it is not.
C1_CountNeverNegativeFreedOnce ==
    \A b \in Bindings :
        /\ Interface[b].ReferenceCount >= 0
        /\ Interface[b].frees <= 1
        /\ (Interface[b].alloc = "live") <=> (Interface[b].ReferenceCount >= 1)
        /\ (Interface[b].alloc = "freed") <=> (Interface[b].frees = 1)

\* A binding that was looked up, had a client and an attachment, was removed
\* and has been freed.
C1_Witness ==
    \E b \in Bindings :
        /\ Interface[b].alloc = "freed"
        /\ Interface[b].removeCompletes = 1
        /\ \E n \in NmrIds : Nmr[n].alloc = "freed"
        /\ ret.op = "StartRundown" /\ ret.notified # <<>>

\* C2: the existence count is never incremented from zero.  A count grows
\* only on a live binding whose count is at least one (or on the binding
\* being allocated), and FindAndReferenceBinding returns only a live binding
\* that is still in its mode slot: never one that RemoveInterfaces has
\* removed, whether or not its deletion work item has run.
C2_NeverIncrementedFromZero ==
    [][/\ \A b \in Bindings :
             Interface'[b].ReferenceCount > Interface[b].ReferenceCount
                => \/ Interface[b].alloc = "none"
                   \/ /\ Interface[b].alloc = "live"
                      /\ Interface[b].ReferenceCount >= 1
       /\ (ret'.op = "FindAndReferenceBinding" /\ ret'.Interface # NULL)
             => LET b == ret'.Interface IN
                /\ Interface[b].alloc = "live"
                /\ Interface[b].ReferenceCount >= 1
                /\ Interface[b].IfSet # NULL
                /\ \E k \in 1..Len(XdpInterfaceSets) :
                      XdpInterfaceSets[k].Interfaces[Interface[b].Mode] = b
                /\ Interface'[b].alloc = "live"]_vars

\* A lookup on an interface returns null while a removed binding of that
\* interface is still allocated, its deletion item queued.
C2_Witness ==
    /\ ret.op = "FindAndReferenceBinding"
    /\ ret.Interface = NULL
    /\ \E b \in Bindings :
          /\ Interface[b].alloc = "live"
          /\ Interface[b].IfIndex = ret.IfIndex
          /\ Interface[b].IfSet = NULL
          /\ WorkQueue[b] = <<DeleteItem>>

\* C3: AddInterfaces is atomic across its batch.  When it fails, every
\* output handle is null, the mode slots are as they were, every binding it
\* had created has been dereferenced and freed, the bindings of earlier
\* batches and their work queues are unchanged, and no slot holds a binding
\* that is not live, so that no lookup returns a binding of the batch.
C3_AddInterfacesAtomic ==
    [][(ret'.op = "AddInterfaces" /\ ~NT_SUCCESS(ret'.Status))
          => /\ \A i \in DOMAIN ret'.handles : ret'.handles[i] = NULL
             /\ XdpInterfaceSets' = XdpInterfaceSets
             /\ WorkQueue' = WorkQueue
             /\ \A b \in Bindings :
                   IF Interface[b].alloc = "none"
                   THEN \/ Interface'[b] = Interface[b]
                        \/ /\ Interface'[b].alloc = "freed"
                           /\ Interface'[b].frees = 1
                   ELSE Interface'[b] = Interface[b]
             /\ \A k \in 1..Len(XdpInterfaceSets'), m \in Modes :
                   LET c == XdpInterfaceSets'[k].Interfaces[m] IN
                   c # NULL => Interface'[c].alloc = "live"]_vars

\* A batch failed after it had created a binding, which is freed, while a
\* binding of an earlier batch is live in its slot.
C3_Witness ==
    /\ ret.op = "AddInterfaces"
    /\ ~NT_SUCCESS(ret.Status)
    /\ Len(ret.handles) = 2
    /\ \E b \in Bindings :
          Interface[b].alloc = "freed" /\ Interface[b].removeCompletes = 0
    /\ \E b \in Bindings :
          Interface[b].alloc = "live" /\ Interface[b].IfSet # NULL

\* C4: the provider-usage count reaching zero triggers exactly one
\* attachment close.  XdpCloseProvider and XdpCleanupProvider are called at
\* most once on an attachment, and only while the provider-usage count is
\* zero; a binding whose count is zero holds no attachment other than the one
\* its worker is closing; and an attachment that was opened has been closed
\* once it, or its binding, is freed.
C4_ExactlyOneClose ==
    /\ \A n \in NmrIds :
          /\ Nmr[n].closeCalls <= 1
          /\ Nmr[n].cleanupCalls <= Nmr[n].closeCalls
          /\ Nmr[n].closeCalls = 1 => Nmr[n].prAtClose = 0
          /\ Nmr[n].alloc = "freed"
                => Nmr[n].closeCalls = 1 /\ Nmr[n].cleanupCalls = 1
          /\ (Nmr[n].opened /\ Nmr[n].BindingHandle # NULL
                /\ Interface[Nmr[n].BindingHandle].alloc = "freed")
                => Nmr[n].closeCalls = 1
    /\ \A b \in Bindings :
          (Live(b) /\ Interface[b].ProviderReference = 0
              /\ Interface[b].Nmr # NULL)
             => /\ worker[b].pc = "wait"
                /\ worker[b].waitNmr = Interface[b].Nmr
                /\ Nmr[Interface[b].Nmr].closeCalls = 1

\* The same, in the states reached without an ASSERT of bind.c having failed.
C4_WhileAssertsHold == asserts = {} => C4_ExactlyOneClose

\* The worker of binding b is inside the loop of XdpIfpStartRundown: between
\* two turns, or inside a client's BindingDetached.
InNotification(b) ==
    \/ worker[b].pc = "notify"
    \/ worker[b].pc = "wait" /\ worker[b].cont = "notify"

InWalk(b) == worker[b].pc = "rundown" \/ InNotification(b)

NoDuplicates(seq) ==
    \A i, j \in DOMAIN seq : seq[i] = seq[j] => i = j

\* C5: in a rundown, registry-initiated or provider-initiated, in which no
\* client registers an entry on the binding from inside its notification,
\* the entries linked when the walk starts are, at every point of the walk,
\* split into those notified (each exactly once, and unlinked), those still
\* linked and those their client deregistered from inside a notification;
\* the entry being notified is the last one taken off the list; and when
\* the walk returns the client list is empty, so that every entry the walk
\* found linked has been notified exactly once.
C5_EveryLinkedClientNotifiedOnce ==
    /\ \A b \in Bindings :
          (InWalk(b) /\ worker[b].walkRegistered = 0) =>
             LET w == worker[b]
                 notified == Range(w.walkNotified)
                 linked == Range(Interface[b].Clients)
             IN /\ NoDuplicates(w.walkNotified)
                /\ w.walkStart = notified \cup linked \cup w.walkDeregistered
                /\ notified \cap linked = {}
                /\ notified \cap w.walkDeregistered = {}
                /\ linked \cap w.walkDeregistered = {}
                /\ \A e \in notified \cup w.walkDeregistered :
                      Entry[e].Link = NULL
                /\ InNotification(b) =>
                      (/\ w.walkNotified # <<>>
                       /\ w.entry = w.walkNotified[Len(w.walkNotified)])
    /\ ret.op = "StartRundown" =>
          /\ Interface[ret.Interface].Clients = <<>>
          /\ ret.registered = 0 =>
                /\ NoDuplicates(ret.notified)
                /\ ret.linked = Range(ret.notified) \cup ret.deregistered
                /\ Range(ret.notified) \cap ret.deregistered = {}
                /\ \A e \in ret.linked : Entry[e].Link = NULL

\* A provider-initiated rundown has returned after it notified two clients.
C5_Witness ==
    /\ ret.op = "StartRundown"
    /\ ret.item.kind = "nmr"
    /\ ret.registered = 0
    /\ Len(ret.notified) = 2
    /\ ret.deregistered = {}
    /\ Interface[ret.Interface].alloc = "live"

\* C6: a RegisterClient on a binding whose BindingDeleting is set returns
\* STATUS_DELETE_PENDING, takes no reference and leaves the client list and
\* the entry as they were; and a registration run by a work item on a
\* binding that RemoveInterfaces has taken out of its interface set, once
\* the deletion work item is no longer ahead of it in the queue, returns
\* STATUS_DELETE_PENDING.
C6_RegisterAfterDeleteIsPending ==
    [][\A b \in Bindings :
          (ret'.op = "RegisterClient" /\ ret'.Interface = b) =>
             /\ Interface[b].BindingDeleting =>
                   /\ ret'.Status = STATUS_DELETE_PENDING
                   /\ ret'.taken = 0
                   /\ Interface'[b].Clients = Interface[b].Clients
                   /\ Entry' = Entry
             /\ (/\ Interface[b].IfSet = NULL
                 /\ DeleteItem \notin Range(WorkQueue[b])) =>
                   /\ Interface[b].BindingDeleting
                   /\ ret'.Status = STATUS_DELETE_PENDING]_vars

\* A work item queued after the removal tried to register a client on the
\* binding, which a caller still holds.
C6_Witness ==
    /\ ret.op = "RegisterClient"
    /\ ret.Status = STATUS_DELETE_PENDING
    /\ worker[ret.Interface].pc = "idle"
    /\ Interface[ret.Interface].alloc = "live"
    /\ Interface[ret.Interface].IfSet = NULL
    /\ Entry[ret.entry].Link = NULL
    /\ held[ret.Interface] = 1

\* C7: a binding is allocated whenever a client of it is inside its detach
\* notification; the turn of the rundown that starts a notification unlinks
\* the entry and leaves the existence count as it is, and the count drops,
\* by one, in the step in which the notification returns.
C7_NotFreedDuringNotification ==
    [][\A b \in Bindings :
          /\ InNotification(b)' => Interface'[b].alloc = "live"
          /\ (worker[b].pc = "rundown" /\ worker'[b].pc = "notify") =>
                /\ Interface[b].alloc = "live"
                /\ worker'[b].entry = Head(Interface[b].Clients)
                /\ Entry[worker'[b].entry].Link = b
                /\ Entry'[worker'[b].entry].Link = NULL
                /\ Interface'[b].ReferenceCount = Interface[b].ReferenceCount
          /\ (worker[b].pc = "notify" /\ worker'[b].pc = "rundown") =>
                /\ Interface[b].ReferenceCount >= 2
                /\ Interface'[b].ReferenceCount
                      = Interface[b].ReferenceCount - 1]_vars

\* The second of two clients is inside its notification in the rundown of a
\* removed binding that no caller holds.
C7_Witness ==
    \E b \in Bindings :
       /\ worker[b].pc = "notify"
       /\ worker[b].item = DeleteItem
       /\ Len(worker[b].walkNotified) = 2
       /\ held[b] = 0
       /\ Interface[b].IfSet = NULL
       /\ Interface[b].ReferenceCount = 3

\* Binding b stays allocated over the step.
StaysLive(b) == Interface[b].alloc = "live" /\ Interface'[b].alloc = "live"

\* C8, as claimed: once BindingDeleting or NmrDeleting is set on a binding
\* it is not cleared while the binding is allocated.
C8_FlagsMonotonic ==
    [][\A b \in Bindings :
          StaysLive(b) =>
             /\ Interface[b].BindingDeleting => Interface'[b].BindingDeleting
             /\ Interface[b].NmrDeleting => Interface'[b].NmrDeleting]_vars

\* C8, as the code has it: BindingDeleting is never cleared while the
\* binding is allocated; NmrDeleting is set only by the work item of a
\* provider detach, and it is cleared only by XdpIfpCloseInterface, in the
\* step in which the close of the binding's provider attachment completes
\* (the attachment's handle and the binding's attachment pointer are null
\* after it).
C8_NmrDeletingClearedByClose ==
    [][\A b \in Bindings :
          StaysLive(b) =>
             /\ Interface[b].BindingDeleting => Interface'[b].BindingDeleting
             /\ (~Interface[b].NmrDeleting /\ Interface'[b].NmrDeleting) =>
                   /\ worker[b].pc = "idle"
                   /\ WorkQueue[b] # <<>>
                   /\ Head(WorkQueue[b]).kind = "nmr"
                   /\ Nmr[Head(WorkQueue[b]).nmr].NmrHandle # NULL
             /\ (Interface[b].NmrDeleting /\ ~Interface'[b].NmrDeleting) =>
                   /\ Interface[b].Nmr # NULL
                   /\ Interface'[b].Nmr = NULL
                   /\ Nmr[Interface[b].Nmr].closeCalls >= 1
                   /\ Nmr[Interface[b].Nmr].DetachNotification
                   /\ Nmr'[Interface[b].Nmr].NmrHandle = NULL]_vars

\* The rundown of a provider detach has returned on a binding that is not
\* being deleted: it set NmrDeleting, closed the attachment and cleared the
\* flag again, and the binding is open to a new attachment.
C8_Witness ==
    /\ ret.op = "StartRundown"
    /\ ret.item.kind = "nmr"
    /\ asserts = {}
    /\ Interface[ret.Interface].alloc = "live"
    /\ Interface[ret.Interface].IfSet # NULL
    /\ ~Interface[ret.Interface].BindingDeleting
    /\ ~Interface[ret.Interface].NmrDeleting
    /\ Interface[ret.Interface].Nmr = NULL
    /\ Nmr[ret.item.nmr].closeCalls = 1

\* C9: whenever the provider-usage count of a binding is not zero its
\* provider context is open: the attachment exists, its handle is live and
\* no close of it has begun, and the provider's interface context and
\* dispatch table are set.
C9_ProviderOpenWhileUsed ==
    \A b \in Bindings :
       (Interface[b].alloc = "live" /\ Interface[b].ProviderReference > 0) =>
          /\ Interface[b].Nmr # NULL
          /\ Nmr[Interface[b].Nmr].alloc = "live"
          /\ Nmr[Interface[b].Nmr].NmrHandle # NULL
          /\ Nmr[Interface[b].Nmr].closeCalls = 0
          /\ Interface[b].InterfaceDispatch # "NULL"
          /\ Interface[b].InterfaceContext # NULL

\* The same without the interface context, which the provider may leave
\* null, in the states reached without an ASSERT of bind.c having failed.
C9_AttachmentOpenWhileAssertsHold ==
    asserts = {} =>
       \A b \in Bindings :
          (Interface[b].alloc = "live" /\ Interface[b].ProviderReference > 0)
          => /\ Interface[b].Nmr # NULL
             /\ Nmr[Interface[b].Nmr].alloc = "live"
             /\ Nmr[Interface[b].Nmr].NmrHandle # NULL
             /\ Nmr[Interface[b].Nmr].closeCalls = 0
             /\ Interface[b].InterfaceDispatch # "NULL"

\* Binding b is in a slot of an interface set.
InRegistry(b) ==
    \E k \in 1..Len(XdpInterfaceSets), m \in Modes :
       XdpInterfaceSets[k].Interfaces[m] = b

\* The count of b is at least one while the registry or a caller refers to it.
CountHeldWhileReachable(b) ==
    (InRegistry(b) \/ held[b] > 0) =>
       /\ Interface[b].alloc = "live"
       /\ Interface[b].ReferenceCount >= 1

\* The provider context of b is closed, no client is attached to it and its
\* deletion work item has run.
DeletionDone(b) ==
    /\ Interface[b].ProviderReference = 0
    /\ Interface[b].InterfaceContext = NULL
    /\ Interface[b].Nmr = NULL
    /\ Interface[b].Clients = <<>>
    /\ \A e \in Entries : Entry[e].Link # b
    /\ Interface[b].BindingDeleting
    /\ DeleteItem \notin Range(WorkQueue[b])

\* C10, as claimed: the existence count is at least one while the binding
\* is reachable from the registry or held by a caller, and a binding is
\* freed only when its provider context is closed, its clients are
\* detached and its deletion work item has executed.
C10_ZeroOnlyAfterDeletion ==
    [][\A b \in Bindings :
          /\ CountHeldWhileReachable(b)'
          /\ (Interface[b].alloc # "freed" /\ Interface'[b].alloc = "freed")
             => DeletionDone(b)]_vars

\* C10, as the code has it: as claimed for a binding that was returned to
\* the provider; a binding that a failing XdpIfAddInterfaces created is
\* freed in that same call, without a deletion work item, before the
\* registry lock is released.
C10_ZeroAfterDeletionOrUnwind ==
    [][\A b \in Bindings :
          /\ CountHeldWhileReachable(b)'
          /\ (Interface[b].alloc = "live" /\ Interface'[b].alloc = "freed")
             => DeletionDone(b)
          /\ (Interface[b].alloc = "none" /\ Interface'[b].alloc = "freed")
             => /\ ret'.op = "AddInterfaces"
                /\ ~NT_SUCCESS(ret'.Status)
                /\ ~InRegistry(b)'
                /\ held'[b] = 0
                /\ WorkQueue'[b] = <<>>]_vars

\* A failing batch has discarded the binding it had created, and the
\* registry holds no binding.
C10_Witness ==
    /\ ret.op = "AddInterfaces"
    /\ ~NT_SUCCESS(ret.Status)
    /\ Len(ret.handles) = 2
    /\ \E b \in Bindings :
          /\ Interface[b].alloc = "freed"
          /\ Interface[b].frees = 1
          /\ Interface[b].removeCompletes = 0
    /\ \A b \in Bindings : ~InRegistry(b)

(***************************************************************************)
(* The removal-complete callback.                                          *)
(***************************************************************************)
\* The step invokes RemoveInterfaceComplete of binding b.
RemoveCompleteInvoked(b) ==
    Interface'[b].removeCompletes > Interface[b].removeCompletes

\* BindingDeleting is set when the callback is invoked: it was set before
\* the step, or the step is XdpIfpInterfaceDelete, which sets it first.
DeletingWhenInvoked(b) ==
    Interface[b].BindingDeleting \/ Dequeue(b, "delete")

\* C11: the removal-complete callback is invoked only after every client
\* that was linked on the binding has been unlinked and notified and the
\* attachment has been torn down, and only for a binding whose
\* BindingDeleting flag is set.
C11_CompleteAfterClientsAndClose ==
    [][\A b \in Bindings :
          RemoveCompleteInvoked(b) =>
             /\ DeletingWhenInvoked(b)
             /\ Interface'[b].InterfaceContext = NULL
             /\ Interface'[b].Nmr = NULL
             /\ Interface[b].Clients = <<>>
             /\ Interface'[b].Clients = <<>>]_vars

\* C11, as the code has it: the callback is invoked at most once, with
\* BindingDeleting set, with no provider usage and after the attachment has
\* been torn down; XdpIfpStartRundown closes before it walks the clients.
C11_CompleteAfterClose ==
    [][\A b \in Bindings :
          RemoveCompleteInvoked(b) =>
             /\ DeletingWhenInvoked(b)
             /\ Interface'[b].InterfaceContext = NULL
             /\ Interface'[b].Nmr = NULL
             /\ Interface'[b].ProviderReference = 0
             /\ Interface'[b].XdpIfInterfaceContext = NULL
             /\ Interface[b].removeCompletes = 0
             /\ Interface'[b].removeCompletes = 1]_vars

C11_Witness ==
    \E b \in Bindings :
        /\ Interface[b].BindingDeleting
        /\ Interface[b].removeCompletes = 1
        /\ Interface[b].Clients # <<>>
        /\ Interface[b].InterfaceContext = NULL
        /\ Interface[b].Nmr = NULL
        /\ worker[b].pc = "rundown"

(***************************************************************************)
(* Version negotiation.                                                    *)
(***************************************************************************)
\* The compatibility rule, written out as the specification states it.
Compatible(candidate) ==
    /\ XdpDriverApiCurrentVersion.Major = candidate.Major
    /\ XdpDriverApiCurrentVersion.Minor >= candidate.Minor
    /\ XdpDriverApiCurrentVersion.Patch >= candidate.Patch

\* The positions that are compatible and whose dispatch request succeeds.
Qualifying(Versions, accept) ==
    {i \in DOMAIN Versions : Compatible(Versions[i]) /\ i \in accept}

Increasing(seq) ==
    \A i, j \in DOMAIN seq : i < j => seq[i] < seq[j]

\* C12: negotiation succeeds with the first candidate, in the advertised
\* order, that is compatible and whose dispatch request succeeds; it asks
\* the provider, in order, for exactly the compatible candidates up to the
\* selected one; it returns STATUS_NOT_SUPPORTED exactly when no candidate
\* qualifies; the version recorded is the selected candidate.
C12_FirstCompatibleAccepted ==
    ret.op = "RequestClientDispatch" =>
        LET Q == Qualifying(ret.Versions, ret.accept)
            r == ret.result
        IN /\ (r.Status = STATUS_NOT_SUPPORTED) = (Q = {})
           /\ NT_SUCCESS(r.Status) = (Q # {})
           /\ Increasing(r.requested)
           /\ Q = {} =>
                 Range(r.requested) =
                    {i \in DOMAIN ret.Versions : Compatible(ret.Versions[i])}
           /\ Q # {} =>
                 /\ r.index \in Q
                 /\ \A i \in Q : r.index <= i
                 /\ r.Version = ret.Versions[r.index]
                 /\ Range(r.requested) =
                       {i \in DOMAIN ret.Versions :
                           Compatible(ret.Versions[i]) /\ i <= r.index}

\* A rejected compatible candidate, an incompatible one, then the selected.
C12_Witness ==
    /\ ret.op = "RequestClientDispatch"
    /\ NT_SUCCESS(ret.result.Status)
    /\ Len(ret.result.requested) > 1
    /\ Len(ret.result.requested) < ret.result.index

(***************************************************************************)
(* Queue creation.                                                         *)
(***************************************************************************)
\* The references XdpIfpOpenInterface took for attachments of b whose detach
\* notification has not yet run to its end.
AttachReferences(b) ==
    Cardinality({n \in NmrIds : /\ Nmr[n].BindingHandle = b
                                /\ Nmr[n].opened
                                /\ Nmr[n].detach # "done"})

\* The initial reference, released at the end of XdpIfpInterfaceDelete.
InitialReference(b) ==
    IF /\ Interface[b].BindingDeleting
       /\ ~(worker[b].pc # "idle" /\ worker[b].item.kind = "delete")
    THEN 0 ELSE 1

\* Every existence reference of a live binding has an owner: the registry,
\* the handles held, the work items queued or running, the clients linked
\* or being notified, and the attachments not yet detached.
ReferencesAccounted(b) ==
    Live(b) =>
       Interface[b].ReferenceCount =
          InitialReference(b) + held[b] + Len(WorkQueue[b])
          + (IF worker[b].pc # "idle" THEN 1 ELSE 0)
          + Len(Interface[b].Clients)
          + (IF worker[b].entry # NULL THEN 1 ELSE 0)
          + AttachReferences(b)

\* A queue creation on a binding with no provider usage and no rundown has
\* returned.
CreateReturnedUnused ==
    /\ ret.op = "CreateQueue"
    /\ ret.usage = 0
    /\ ret.stage # "Rundown"

\* C13: a queue creation on a binding whose provider-usage count is zero
\* opens the attachment first; when the open or the negotiation fails the
\* failure is returned (STATUS_NOT_SUPPORTED for a failed negotiation), the
\* provider-usage count is zero, every channel opened has been closed, the
\* binding holds no attachment, and the reference taken for the attachment
\* is held exactly until the detach notification has run.
C13_FailedOpenLeavesNothing ==
    /\ \A b \in Bindings : ReferencesAccounted(b)
    /\ CreateReturnedUnused =>
          /\ ret.opened
          /\ (~ret.called /\ ~NT_SUCCESS(ret.Status)) =>
                LET b == ret.Interface IN
                /\ ret.stage = "XdpRequestClientDispatch" =>
                      ret.Status = STATUS_NOT_SUPPORTED
                /\ Live(b)
                /\ Interface[b].ProviderReference = 0
                /\ Interface[b].Nmr = NULL
                /\ Interface[b].InterfaceContext = NULL
                /\ (ret.nmr # NULL) =
                      (ret.stage \in {"XdpRequestClientDispatch",
                                      "OpenInterface"})
                /\ ret.nmr # NULL =>
                      /\ Nmr[ret.nmr].closeCalls = 1
                      /\ Nmr[ret.nmr].cleanupCalls = 1
                      /\ Nmr[ret.nmr].NmrHandle = NULL
                      /\ Nmr[ret.nmr].DetachNotification

\* The negotiation failed, the call has returned and the detach notification
\* has set its event but not yet released the reference.
C13_Witness ==
    /\ CreateReturnedUnused
    /\ ret.stage = "XdpRequestClientDispatch"
    /\ ret.Status = STATUS_NOT_SUPPORTED
    /\ Nmr[ret.nmr].BindingHandle = ret.Interface
    /\ Nmr[ret.nmr].closeCalls = 1
    /\ Nmr[ret.nmr].detach = "signalled"

\* C14: when the provider's create call fails, its status is returned
\* unchanged and the provider-usage count is what it was before the call;
\* if that was zero, the attachment opened for the call has been closed.
C14_FailedCreateReleasesUsage ==
    (ret.op = "CreateQueue" /\ ret.called /\ ~NT_SUCCESS(ret.provider)) =>
        LET b == ret.Interface IN
        /\ ret.Status = ret.provider
        /\ Live(b)
        /\ Interface[b].ProviderReference = ret.usage
        /\ ret.usage = 0 =>
              /\ ret.nmr # NULL
              /\ Nmr[ret.nmr].closeCalls = 1
              /\ Nmr[ret.nmr].cleanupCalls = 1
              /\ Nmr[ret.nmr].NmrHandle = NULL
              /\ Interface[b].Nmr = NULL
              /\ Interface[b].InterfaceContext = NULL

C14_Witness ==
    /\ ret.op = "CreateQueue"
    /\ ret.called
    /\ ret.Status \in ProviderErrors \ {STATUS_UNSUCCESSFUL}
    /\ ret.usage = 0
    /\ Nmr[ret.nmr].closeCalls = 1
    /\ Interface[ret.Interface].Nmr = NULL

\* C15: a queue creation attempted while the binding is in rundown returns
\* STATUS_DELETE_PENDING without opening an attachment, without calling the
\* provider and without changing the provider-usage count.
C15_CreateInRundownIsPending ==
    [][\A b \in Bindings :
          (/\ worker[b].pc = "idle"
           /\ Interface[b].BindingDeleting \/ Interface[b].NmrDeleting
           /\ ret'.op = "CreateQueue"
           /\ ret'.Interface = b) =>
              /\ ret'.Status = STATUS_DELETE_PENDING
              /\ ~ret'.opened
              /\ ~ret'.called
              /\ ret'.nmr = NULL
              /\ Nmr' = Nmr
              /\ Interface'[b].ProviderReference =
                    Interface[b].ProviderReference
              /\ Interface'[b].Nmr = Interface[b].Nmr
              /\ Interface'[b].InterfaceContext =
                    Interface[b].InterfaceContext
              /\ queues' = queues]_vars

\* Refused while the provider's detach is being run down and a queue still
\* uses the provider.
C15_Witness ==
    /\ ret.op = "CreateQueue"
    /\ ret.Status = STATUS_DELETE_PENDING
    /\ Interface[ret.Interface].NmrDeleting
    /\ ~Interface[ret.Interface].BindingDeleting
    /\ Interface[ret.Interface].ProviderReference > 0

(***************************************************************************)
(* Lookup.                                                                 *)
(***************************************************************************)
\* The binding in slot Mode of the set of IfIndex qualifies for the lookup.
Qualifies(IfIndex, HookIds, RequiredMode, Mode) ==
    \E k \in DOMAIN XdpInterfaceSets :
        /\ XdpInterfaceSets[k].IfIndex = IfIndex
        /\ XdpInterfaceSets[k].Interfaces[Mode] # NULL
        /\ (RequiredMode = <<>> \/ RequiredMode = <<Mode>>)
        /\ \A i \in DOMAIN HookIds :
              \E j \in DOMAIN
                       Interface[XdpInterfaceSets[k].Interfaces[Mode]].Hooks :
                 Interface[XdpInterfaceSets[k].Interfaces[Mode]].Hooks[j]
                    = HookIds[i]

SlotOf(IfIndex, Mode) ==
    LET k == CHOOSE k \in DOMAIN XdpInterfaceSets :
                 XdpInterfaceSets[k].IfIndex = IfIndex
    IN XdpInterfaceSets[k].Interfaces[Mode]

\* C16: FindAndReferenceBinding returns null when no binding of the
\* interface qualifies; otherwise the native binding if it qualifies and
\* else the generic one, with its existence count incremented by exactly
\* one and no other binding changed.
C16_FindReturnsLastQualifying ==
    [][ret'.op = "FindAndReferenceBinding" =>
          LET i == ret'.IfIndex
              Q(m) == Qualifies(i, ret'.HookIds, ret'.RequiredMode, m)
              found == ret'.Interface
          IN /\ (found = NULL) = (\A m \in Modes : ~Q(m))
             /\ Q(XDP_INTERFACE_MODE_NATIVE) =>
                   found = SlotOf(i, XDP_INTERFACE_MODE_NATIVE)
             /\ (Q(XDP_INTERFACE_MODE_GENERIC)
                   /\ ~Q(XDP_INTERFACE_MODE_NATIVE)) =>
                   found = SlotOf(i, XDP_INTERFACE_MODE_GENERIC)
             /\ \A b \in Bindings :
                   IF b = found
                   THEN Interface'[b] =
                           [Interface[b] EXCEPT !.ReferenceCount = @ + 1]
                   ELSE Interface'[b] = Interface[b]
             /\ XdpInterfaceSets' = XdpInterfaceSets]_vars

\* Both bindings of the interface are in their slots, only the generic one
\* supports the hook asked for, and no mode is required.
C16_Witness ==
    /\ ret.op = "FindAndReferenceBinding"
    /\ ret.RequiredMode = <<>>
    /\ ret.HookIds # <<>>
    /\ ret.Interface # NULL
    /\ Interface[ret.Interface].Mode = XDP_INTERFACE_MODE_GENERIC
    /\ SlotOf(ret.IfIndex, XDP_INTERFACE_MODE_NATIVE) # NULL
    /\ SlotOf(ret.IfIndex, XDP_INTERFACE_MODE_GENERIC) = ret.Interface

(***************************************************************************)
(* One binding per interface and mode.                                     *)
(***************************************************************************)
SameInterfaceAndMode(b, c) ==
    /\ Interface[b].IfIndex = Interface[c].IfIndex
    /\ Interface[b].Mode = Interface[c].Mode

\* The deletion XdpIfRemoveInterfaces queued for b has not run to its end.
DeletionPending(b) ==
    DeleteItem \in Range(WorkQueue[b]) \/ Interface[b].BindingDeleting

\* C17: no two allocated bindings share interface identity and mode, also
\* while a removed binding's deletion is pending and the provider adds the
\* same interface and mode again; the binding in a mode slot has that mode.
C17_OneBindingPerInterfaceMode ==
    /\ \A b, c \in Bindings :
          (b # c /\ Live(b) /\ Live(c)) => ~SameInterfaceAndMode(b, c)
    /\ \A k \in DOMAIN XdpInterfaceSets, m \in Modes :
          XdpInterfaceSets[k].Interfaces[m] # NULL =>
             Interface[XdpInterfaceSets[k].Interfaces[m]].Mode = m

\* C17, as the code has it: a mode slot holds at most one binding, which is
\* allocated, has the slot's mode and the set's interface; a binding is in
\* exactly one slot until it is removed and in none afterwards; of the
\* allocated bindings of one interface and mode at most one has not been
\* removed, the others are removed bindings whose deletion is pending.
C17_OneRegisteredBindingPerInterfaceMode ==
    /\ \A k \in DOMAIN XdpInterfaceSets, m \in Modes :
          LET b == XdpInterfaceSets[k].Interfaces[m] IN
          b # NULL =>
             /\ Live(b)
             /\ Interface[b].Mode = m
             /\ Interface[b].IfIndex = XdpInterfaceSets[k].IfIndex
             /\ Interface[b].IfSet = XdpInterfaceSets[k].IfIndex
    /\ \A b \in Bindings :
          Live(b) =>
             Cardinality({km \in (DOMAIN XdpInterfaceSets) \X Modes :
                             XdpInterfaceSets[km[1]].Interfaces[km[2]] = b})
                = (IF Interface[b].IfSet # NULL THEN 1 ELSE 0)
    /\ \A b \in Bindings :
          (Live(b) /\ Interface[b].IfSet = NULL) => DeletionPending(b)
    /\ \A b, c \in Bindings :
          (b # c /\ Live(b) /\ Live(c) /\ SameInterfaceAndMode(b, c)) =>
             Interface[b].IfSet = NULL \/ Interface[c].IfSet = NULL

\* The provider has added the interface and mode again while the deletion
\* item of the binding it removed is still queued.
C17_Witness ==
    \E b, c \in Bindings :
       /\ b # c /\ Live(b) /\ Live(c)
       /\ SameInterfaceAndMode(b, c)
       /\ InRegistry(c)
       /\ Interface[b].IfSet = NULL
       /\ DeleteItem \in Range(WorkQueue[b])

(***************************************************************************)
(* Interface sets.                                                         *)
(***************************************************************************)
HasInterfaceSet(IfIndex) ==
    \E k \in DOMAIN XdpInterfaceSets : XdpInterfaceSets[k].IfIndex = IfIndex

\* C18: CreateInterfaceSet for an interface that has a set returns
\* STATUS_DUPLICATE_OBJECTID and changes nothing; for an interface that has
\* none, as after DeleteInterfaceSet, it is not refused and, unless the
\* allocation fails, inserts an empty set at the tail; the registry never
\* holds two sets of one interface.
C18_DuplicateSetRefused ==
    [][/\ \A j, k \in DOMAIN XdpInterfaceSets' :
             j # k => XdpInterfaceSets'[j].IfIndex # XdpInterfaceSets'[k].IfIndex
       /\ ret'.op = "CreateInterfaceSet" =>
             /\ (ret'.Status = STATUS_DUPLICATE_OBJECTID)
                   = HasInterfaceSet(ret'.IfIndex)
             /\ Interface' = Interface
             /\ ret'.Status \in {STATUS_DUPLICATE_OBJECTID, STATUS_NO_MEMORY,
                                 STATUS_SUCCESS}
             /\ IF ret'.Status = STATUS_SUCCESS
                THEN XdpInterfaceSets' =
                        Append(XdpInterfaceSets,
                               [IfIndex |-> ret'.IfIndex,
                                Interfaces |-> [m \in Modes |-> NULL]])
                ELSE XdpInterfaceSets' = XdpInterfaceSets]_vars

\* The set of an interface was deleted while a binding removed from it is
\* still allocated, and a new set for the interface has been created.
C18_Witness ==
    /\ ret.op = "CreateInterfaceSet"
    /\ ret.Status = STATUS_SUCCESS
    /\ \E b \in Bindings :
          /\ Live(b)
          /\ Interface[b].IfIndex = ret.IfIndex
          /\ Interface[b].IfSet = NULL

(***************************************************************************)
(* Client registration.                                                    *)
(***************************************************************************)
\* An entry with the pair (ClientId, Key) is linked on binding b.
PairLinked(b, ClientId, Key) ==
    \E i \in DOMAIN Interface[b].Clients :
        /\ Entry[Interface[b].Clients[i]].ClientId = ClientId
        /\ Entry[Interface[b].Clients[i]].Key = Key

\* A failed registration changes neither the list nor the count; a
\* successful one links the entry at the tail and takes one reference.
RegisterEffect ==
    LET b == ret'.Interface IN
    IF ret'.Status = STATUS_SUCCESS
    THEN /\ Interface'[b].Clients = Append(Interface[b].Clients, ret'.entry)
         /\ ret'.taken = 1
         /\ Entry'[ret'.entry] = [Link |-> b, ClientId |-> ret'.ClientId,
                                  Key |-> ret'.Key]
    ELSE /\ Interface'[b].Clients = Interface[b].Clients
         /\ ret'.taken = 0
         /\ Entry' = Entry

\* No client list holds two entries with equal (ClientId, Key).
PairsUniquePerBinding ==
    \A b \in Bindings : \A i, j \in DOMAIN Interface'[b].Clients :
        (/\ Entry'[Interface'[b].Clients[i]].ClientId
               = Entry'[Interface'[b].Clients[j]].ClientId
         /\ Entry'[Interface'[b].Clients[i]].Key
               = Entry'[Interface'[b].Clients[j]].Key) => i = j

\* C19: RegisterClient fails with STATUS_DUPLICATE_OBJECTID, leaving list
\* and count unchanged, exactly when an entry with the same pair is linked
\* on the binding; otherwise, on a binding that is not deleting, it links
\* the entry at the tail and takes one reference; no list holds a pair twice.
C19_DuplicateExactlyWhenLinked ==
    [][/\ PairsUniquePerBinding
       /\ ret'.op = "RegisterClient" =>
             LET b == ret'.Interface
                 dup == PairLinked(b, ret'.ClientId, ret'.Key)
             IN /\ (ret'.Status = STATUS_DUPLICATE_OBJECTID) = dup
                /\ (~dup /\ ~Interface[b].BindingDeleting) =>
                      ret'.Status = STATUS_SUCCESS
                /\ RegisterEffect]_vars

\* C19, as the code has it: BindingDeleting is looked at before the list, so
\* the call fails with STATUS_DUPLICATE_OBJECTID exactly when the binding is
\* not deleting and an entry with the same pair is linked on it, and with
\* STATUS_DELETE_PENDING exactly when the binding is deleting.
C19_DuplicateWhenLinkedAndNotDeleting ==
    [][/\ PairsUniquePerBinding
       /\ ret'.op = "RegisterClient" =>
             LET b == ret'.Interface
                 dup == PairLinked(b, ret'.ClientId, ret'.Key)
             IN /\ (ret'.Status = STATUS_DUPLICATE_OBJECTID)
                      = (dup /\ ~Interface[b].BindingDeleting)
                /\ (ret'.Status = STATUS_DELETE_PENDING)
                      = Interface[b].BindingDeleting
                /\ (ret'.Status = STATUS_SUCCESS)
                      = (~dup /\ ~Interface[b].BindingDeleting)
                /\ RegisterEffect]_vars

\* The pair just registered on one binding is linked on another one too.
C19_Witness ==
    /\ ret.op = "RegisterClient"
    /\ ret.Status = STATUS_SUCCESS
    /\ \E b, c \in Bindings :
          /\ b # c
          /\ PairLinked(b, ret.ClientId, ret.Key)
          /\ PairLinked(c, ret.ClientId, ret.Key)

\* C20: the reference of a registration is released exactly once:
\* DeregisterClient on a linked entry unlinks it and drops one reference; on
\* an entry that is not linked (never registered, deregistered, or unlinked
\* by the rundown, also from inside its own detach notification) it changes
\* neither the list nor the count; the count always equals its owners.
C20_RegistrationReleasedOnce ==
    [][/\ \A b \in Bindings : ReferencesAccounted(b)'
       /\ ret'.op = "DeregisterClient" =>
             LET b == ret'.Interface
                 e == ret'.entry
             IN IF Entry[e].Link = b
                THEN /\ ret'.released = 1
                     /\ Interface'[b].Clients = Without(Interface[b].Clients, e)
                     /\ e \in Range(Interface[b].Clients)
                     /\ Entry'[e].Link = NULL
                     /\ \A o \in Entries \ {e} : Entry'[o] = Entry[o]
                ELSE /\ ret'.released = 0
                     /\ Interface'[b].Clients = Interface[b].Clients
                     /\ Entry' = Entry]_vars

\* The entry is deregistered from inside its own detach notification.
C20_Witness ==
    /\ ret.op = "DeregisterClient"
    /\ ret.released = 0
    /\ worker[ret.Interface].pc = "notify"
    /\ worker[ret.Interface].entry = ret.entry
    /\ Interface[ret.Interface].Clients # <<>>

(***************************************************************************)
(* Capability validation, C21 and C22.  The bounds of an array are stated  *)
(* without any sum or product that could overflow: an array of count       *)
(* elements of the given size at offset lies within total bytes exactly    *)
(* when offset <= total and count <= (total - offset) / size.              *)
(***************************************************************************)
U32Minus(a, b) ==
    IF a.lo >= b.lo THEN [hi |-> a.hi - b.hi, lo |-> a.lo - b.lo]
    ELSE [hi |-> a.hi - b.hi - 1, lo |-> a.lo + HALF - b.lo]

U32DividedBy(a, size) ==
    [hi |-> a.hi \div size, lo |-> ((a.hi % size) * HALF + a.lo) \div size]

U32LessOrEqual(a, b) == a.hi < b.hi \/ (a.hi = b.hi /\ a.lo <= b.lo)

ArrayWithin(offset, count, size, total) ==
    /\ U32LessOrEqual(offset, total)
    /\ U32LessOrEqual(count, U32DividedBy(U32Minus(total, offset), size))

VersionArrayWithin(Caps) ==
    ArrayWithin(Caps.CapabilitiesEx.DriverApiVersionsOffset,
                Caps.CapabilitiesEx.DriverApiVersionCount,
                SIZEOF_XDP_VERSION, Caps.CapabilitiesSize)

HookArrayWithin(AddIf) ==
    ArrayWithin(AddIf.HooksOffset, U32(Len(AddIf.Hooks)), SIZEOF_XDP_HOOK_ID,
                AddIf.Caps.CapabilitiesSize)

HeaderMeetsMinimum(Caps) ==
    /\ Caps.CapabilitiesEx.Revision >= XDP_CAPABILITIES_EX_REVISION_1
    /\ Caps.CapabilitiesEx.Size >= XDP_SIZEOF_CAPABILITIES_EX_REVISION_1

\* The call left no trace: nothing allocated, no slot written, no handle.
NothingAdded ==
    /\ Interface' = Interface
    /\ WorkQueue' = WorkQueue
    /\ XdpInterfaceSets' = XdpInterfaceSets
    /\ \A i \in DOMAIN ret'.handles : ret'.handles[i] = NULL

C22_ValidationExactIn32Bits ==
    [][ret'.op = "AddInterface"
          => LET Caps == ret'.AddIf.Caps
                 Ex == Caps.CapabilitiesEx
                 valid ==
                    /\ HeaderMeetsMinimum(Caps)
                    /\ ArrayWithin(U32(0), Ex.DriverApiVersionCount,
                                   SIZEOF_XDP_VERSION, U32Max)
                    /\ ArrayWithin(Ex.DriverApiVersionsOffset,
                                   Ex.DriverApiVersionCount,
                                   SIZEOF_XDP_VERSION, U32Max)
                    /\ VersionArrayWithin(Caps)
             IN /\ XdpValidateCapabilitiesEx(Ex, Caps.CapabilitiesSize) = valid
                /\ NT_SUCCESS(ret'.Status) = valid
                /\ ~valid => /\ ret'.Status = STATUS_NOT_SUPPORTED
                             /\ NothingAdded]_vars

\* A blob with a valid header was rejected whose version count times 12 is
\* 2^32 + 8, so that the wrapped end of the array, 48, would lie within the
\* total size of 52.
C22_Witness ==
    /\ ret.op = "AddInterface"
    /\ ret.Status = STATUS_NOT_SUPPORTED
    /\ HeaderMeetsMinimum(ret.AddIf.Caps)
    /\ ret.AddIf.Caps.CapabilitiesEx.DriverApiVersionCount = U32(357913942)
    /\ ret.AddIf.Caps.CapabilitiesEx.DriverApiVersionsOffset
          = U32(XDP_SIZEOF_CAPABILITIES_EX_REVISION_1)
    /\ ret.AddIf.Caps.CapabilitiesSize
          = U32(XDP_SIZEOF_CAPABILITIES_EX_REVISION_1 + SIZEOF_XDP_VERSION)
    /\ \A b \in Bindings : Interface[b].alloc = "none"

(***************************************************************************)
(* The provider attachment, C23 to C25.                                    *)
(***************************************************************************)
\* The work item of an NMR context is on a work queue or being run.
ItemPending(n) ==
    \E b \in Bindings :
        \/ \E i \in 1..Len(WorkQueue[b]) : WorkQueue[b][i] = NmrItem(n)
        \/ (worker[b].pc # "idle" /\ worker[b].item = NmrItem(n))

\* The detach work item has run and released its reference; the close path
\* has passed its wait and released its reference.
ItemReleased(n) == Nmr[n].detach = "done" /\ ~ItemPending(n)
CloseReleased(n) == Nmr[n].cleanupCalls >= 1
Count(released) == IF released THEN 1 ELSE 0

C24_CloseWaitsForDetachNotification ==
    [][/\ \A n \in NmrIds :
             (\/ Nmr'[n].cleanupCalls > Nmr[n].cleanupCalls
              \/ (Nmr[n].NmrHandle # NULL /\ Nmr'[n].NmrHandle = NULL)
              \/ (Nmr[n].alloc = "live" /\ Nmr'[n].alloc = "freed"))
                => /\ Nmr[n].DetachNotification
                   /\ Nmr[n].closeCalls = 1
                   /\ Nmr[n].detach # "none"
       /\ \A b \in Bindings :
             worker'[b].pc = "wait"
                => LET n == worker'[b].waitNmr IN
                   /\ Nmr'[n].alloc = "live"
                   /\ Nmr'[n].closeCalls = 1
                   /\ Nmr'[n].cleanupCalls = 0
                   /\ Nmr'[n].NmrHandle # NULL]_vars

\* The close has passed its wait and cleaned the attachment up as soon as
\* the event was set: the detach callback has not yet queued its work item.
C24_Witness ==
    \E n \in NmrIds :
        /\ Nmr[n].cleanupCalls = 1
        /\ Nmr[n].NmrHandle = NULL
        /\ Nmr[n].DetachNotification
        /\ Nmr[n].detach = "signalled"
        /\ Nmr[n].alloc = "live"

\* C25: the detach callback XdpIfpDetachNmrInterface does not wait and
\* changes nothing of the binding inline.  Its first step sets the event of
\* the attachment and nothing else; its second step, which is always
\* possible once the event is set, appends the attachment's work item to the
\* binding's queue and leaves every field of the binding as it was, the
\* existence count included (one reference taken for the item, the one held
\* since the open released), as well as the workers and the client entries.
\* NmrDeleting is set only in a step in which an idle worker takes an
\* attachment's work item off the queue.
C25_DetachCallbackOnlySignalsAndQueues ==
    /\ [](\A n \in NmrIds :
             Nmr[n].detach = "signalled" => ENABLED DetachQueue(n))
    /\ [][/\ \A n \in NmrIds :
                /\ (Nmr[n].detach = "none" /\ Nmr'[n].detach = "signalled")
                      => /\ Nmr' = [Nmr EXCEPT ![n].DetachNotification = TRUE,
                                               ![n].detach = "signalled"]
                         /\ UNCHANGED <<XdpInterfaceSets, Interface, WorkQueue,
                                        worker, Entry, held, queues, asserts>>
                /\ (Nmr[n].detach = "signalled" /\ Nmr'[n].detach = "done")
                      => LET b == Nmr[n].BindingHandle IN
                         /\ Nmr' = [Nmr EXCEPT ![n].detach = "done"]
                         /\ Interface[b].alloc = "live"
                         /\ Interface' = Interface
                         /\ WorkQueue' = [WorkQueue EXCEPT
                                             ![b] = Append(@, NmrItem(n))]
                         /\ UNCHANGED <<XdpInterfaceSets, worker, Entry, held,
                                        queues, asserts>>
          /\ \A b \in Bindings :
                (Interface'[b].NmrDeleting /\ ~Interface[b].NmrDeleting)
                   => /\ worker[b].pc = "idle"
                      /\ WorkQueue[b] # <<>>
                      /\ Head(WorkQueue[b]).kind = "nmr"
                      /\ Nmr[Head(WorkQueue[b]).nmr].detach = "done"
                      /\ WorkQueue'[b] = Tail(WorkQueue[b])]_vars

\* The callback has returned for the attachment of a binding that has a
\* client and a queue: its work item is queued, and the binding is not yet in
\* rundown and still holds its attachment, context and usage count.
C25_Witness ==
    \E n \in NmrIds, b \in Bindings :
        /\ Nmr[n].detach = "done"
        /\ Nmr[n].BindingHandle = b
        /\ \E i \in 1..Len(WorkQueue[b]) : WorkQueue[b][i] = NmrItem(n)
        /\ ~Interface[b].NmrDeleting
        /\ ~Interface[b].BindingDeleting
        /\ Interface[b].Nmr = n
        /\ Interface[b].InterfaceContext # NULL
        /\ Interface[b].ProviderReference = 1
        /\ Interface[b].Clients # <<>>
        /\ asserts = {}

(***************************************************************************)
(* The work queue and the reference counts, C26 to C28.                    *)
(***************************************************************************)
\* C26: the work items of a binding run one at a time and in the order of
\* their submission.  A queue changes only by a submission, which appends
\* the item at the tail, or by a start, which takes the item at the head
\* (the queue of a binding being freed is empty).  An item is
\* started only while no routine of that binding is running: the worker is
\* idle, so it is neither inside a routine nor blocked in the wait for a
\* detach notification nor inside a client's notification; and the routine
\* that runs is the one of the item that was taken.
C26_OneAtATimeInSubmissionOrder ==
    [][\A b \in Bindings :
          /\ WorkQueue'[b] # WorkQueue[b]
                => \/ /\ Len(WorkQueue'[b]) = Len(WorkQueue[b]) + 1
                      /\ SubSeq(WorkQueue'[b], 1, Len(WorkQueue[b]))
                            = WorkQueue[b]
                      /\ worker'[b] = worker[b]
                   \/ /\ WorkQueue[b] # <<>>
                      /\ WorkQueue'[b] = Tail(WorkQueue[b])
                      /\ worker[b].pc = "idle"
                      /\ worker'[b].pc # "idle"
                            => worker'[b].item = Head(WorkQueue[b])
          /\ (worker[b].pc # "idle" /\ worker'[b].pc # "idle")
                => /\ worker'[b].item = worker[b].item
                   /\ \E k \in 0..1 :
                         SubSeq(WorkQueue'[b], 1, Len(WorkQueue'[b]) - k)
                            = WorkQueue[b]
          /\ (worker[b].pc = "idle" /\ worker'[b].pc # "idle")
                => /\ WorkQueue[b] # <<>>
                   /\ WorkQueue'[b] = Tail(WorkQueue[b])]_vars

\* A routine is blocked in the wait for a detach notification while two
\* items submitted after it are queued behind it: the deletion item and the
\* attachment's detach item.
C26_Witness ==
    \E b \in Bindings :
        /\ worker[b].pc = "wait"
        /\ worker[b].item.kind = "client"
        /\ \E n \in NmrIds : WorkQueue[b] = <<DeleteItem, NmrItem(n)>>

\* The work items of a binding that are queued or whose routine is running.
ItemReferences(b) ==
    Len(WorkQueue[b]) + (IF worker[b].pc # "idle" THEN 1 ELSE 0)

\* C27, as claimed: the existence count of a live binding is the number of
\* these holders: the initial reference, the unreleased lookup results, the
\* linked client entries, the work items queued or running and the
\* attachments whose detach callback has not run.
C27_CountEqualsListedHolders ==
    \A b \in Bindings :
        Live(b) =>
           Interface[b].ReferenceCount =
              InitialReference(b) + held[b] + Len(Interface[b].Clients)
              + ItemReferences(b) + AttachReferences(b)

\* C27: the existence count of a live binding is the number of its holders:
\* the initial reference until the deletion work item (or the unwind of
\* AddInterfaces) releases it, one per unreleased lookup result, one per
\* linked client entry, one for the client entry that rundown has unlinked
\* and is notifying, until its notification returns, one per work item
\* queued or running, and one per attachment whose detach callback has not
\* run to its end.  A binding is freed only in a step after which no work
\* item of it is queued or running: its queue was empty, or held the one
\* item whose routine ends in this step.
C27_CountEqualsHolders ==
    /\ [](\A b \in Bindings :
             Live(b) =>
                Interface[b].ReferenceCount =
                   InitialReference(b) + held[b] + Len(Interface[b].Clients)
                   + (IF worker[b].entry # NULL THEN 1 ELSE 0)
                   + ItemReferences(b) + AttachReferences(b))
    /\ [][\A b \in Bindings :
             (Live(b) /\ Interface'[b].alloc = "freed")
                => /\ worker'[b].pc = "idle"
                   /\ \/ WorkQueue[b] = <<>>
                      \/ /\ Len(WorkQueue[b]) = 1
                         /\ worker[b].pc = "idle"]_vars

\* A binding with every kind of holder at once: the registry, a lookup
\* result, a linked client, a work item and an attachment.
C27_Witness ==
    \E b \in Bindings :
        /\ Live(b)
        /\ InitialReference(b) = 1
        /\ held[b] = 1
        /\ Len(Interface[b].Clients) = 1
        /\ ItemReferences(b) = 1
        /\ AttachReferences(b) = 1
        /\ Interface[b].ReferenceCount = 5
        /\ asserts = {}

(***************************************************************************)
(* C28: the two counts under concurrent references and dereferences.     *)
(***************************************************************************)
\* The holders of the existence count of binding b.
Holders(b) ==
    InitialReference(b) + held[b] + Len(Interface[b].Clients)
    + (IF worker[b].entry # NULL THEN 1 ELSE 0)
    + ItemReferences(b) + AttachReferences(b)

\* A step changes the existence count of b by the references it takes less
\* the references it releases.
ExistenceCountExact(b) ==
    Interface'[b].ReferenceCount - Interface[b].ReferenceCount
       = Holders(b)' - Holders(b)

\* A step changes the provider-usage count of b by the queues it creates
\* less the queues it deletes.
UsageCountExact(b) ==
    Interface'[b].ProviderReference - Interface[b].ProviderReference
       = queues'[b] - queues[b]

\* C28, as claimed: no step of any interleaving loses an update of either
\* count, whichever threads issue the operations.
C28_BothCountsExactForAnyThreads ==
    [][\A b \in Bindings :
          (Live(b) /\ Interface'[b].alloc = "live")
             => ExistenceCountExact(b) /\ UsageCountExact(b)]_vars

\* C28: no step of any interleaving of lookups, releases, removal, detach
\* callbacks and work items loses an update of the existence count, which
\* is updated with interlocked operations; and no step loses an update of
\* the provider-usage count, which is a plain counter, unless the step is
\* two threads creating queues at the same time outside the binding's work
\* queue.
C28_CountsExactWhenUsageIsSerialized ==
    [][\A b \in Bindings :
          (Live(b) /\ Interface'[b].alloc = "live")
             => /\ ExistenceCountExact(b)
                /\ UsageCountExact(b)
                      \/ \E v \in ConcurrentIncrements(
                                     Interface[b].ProviderReference) :
                            ConcurrentCreateQueue(b, v)]_vars

\* A lookup result is held while a queue created from a work item is open,
\* the removal of the binding is queued and its rundown has not run.
C28_Witness ==
    \E b \in Bindings :
        /\ Live(b)
        /\ held[b] > 0
        /\ queues[b] > 0
        /\ Interface[b].ProviderReference = queues[b]
        /\ Interface[b].ReferenceCount > 2
        /\ WorkQueue[b] # <<>>
        /\ asserts = {}

(***************************************************************************)
(* C29: removal runs to its end.                                           *)
(***************************************************************************)
\* The binding is gone and its provider was told so once.
RemovalComplete(b) ==
    /\ Interface[b].alloc = "freed"
    /\ Interface[b].removeCompletes = 1

\* XdpIfpCloseNmrInterface is blocked in KeWaitForSingleObject.
WaitingForDetach(b) == worker[b].pc = "wait"

\* C29: with the worker scheduled fairly, a provider that delivers the
\* detach notification of every attachment and consumers that delete their
\* queues and release their handles once the binding is in rundown, every
\* binding that RemoveInterfaces removed is eventually freed with its
\* removal-complete callback invoked exactly once, the callback is never
\* invoked twice, and every wait for a detach notification ends.
C29_RemovalRunsToItsEnd ==
    /\ \A b \in Bindings : DeletionPending(b) ~> RemovalComplete(b)
    /\ \A b \in Bindings : WaitingForDetach(b) ~> ~WaitingForDetach(b)
    /\ [](\A b \in Bindings : Interface[b].removeCompletes <= 1)

\* The worker is blocked in the close of the attachment of a removed
\* binding: the consumer deleted its last queue after rundown began and the
\* detach notification has not been delivered.
C29_Witness ==
    \E b \in Bindings :
        /\ Live(b)
        /\ Interface[b].BindingDeleting
        /\ WaitingForDetach(b)
        /\ ~DetachNotificationSet(worker[b].waitNmr)
        /\ Interface[b].removeCompletes = 0

(***************************************************************************)
(* C30: the registry lock and calls out of the module.                     *)
(***************************************************************************)
\* The step is one of the routines that hold XdpInterfaceSetsLock from their
\* first statement to their last: XdpIfCreateInterfaceSet,
\* XdpIfDeleteInterfaceSet, XdpIfAddInterfaces and XdpIfRemoveInterfaces
\* exclusively, XdpIfFindAndReferenceBinding shared.
UnderRegistryLock ==
    \/ ret'.op \in {"CreateInterfaceSet", "AddInterfaces",
                    "FindAndReferenceBinding"}
    \/ \E k \in 1..Len(XdpInterfaceSets) : DeleteInterfaceSet(k)
    \/ \E hs \in SeqsOf(ProviderHandles) : RemoveInterfaces(hs)

\* The step calls the provider: XdpOpenProvider, XdpCloseProvider,
\* XdpCleanupProvider, OpenInterface or CloseInterface, the creation or
\* deletion of a queue, or RemoveInterfaceComplete.
ProviderCalled ==
    \/ \E n \in NmrIds :
          \/ Nmr'[n].opened # Nmr[n].opened
          \/ Nmr'[n].closeCalls # Nmr[n].closeCalls
          \/ Nmr'[n].cleanupCalls # Nmr[n].cleanupCalls
    \/ \E b \in Bindings :
          \/ Interface'[b].removeCompletes # Interface[b].removeCompletes
          \/ Interface'[b].InterfaceContext # Interface[b].InterfaceContext
          \/ Interface'[b].ProviderReference # Interface[b].ProviderReference
          \/ queues'[b] # queues[b]

\* The step calls a client's BindingDetached, or blocks in the wait of
\* XdpIfpCloseNmrInterface.
NotifiedOrWaited ==
    \E b \in Bindings :
        /\ worker'[b].pc \in {"notify", "wait"}
        /\ worker'[b].pc # worker[b].pc

DetachItemNmr(b) == Head(WorkQueue[b]).nmr

\* The item found its attachment closed (Nmr->NmrHandle == NULL): it frees
\* the context with its last reference and leaves the binding, its clients
\* and every other context as they were.
ClosedItemOnlyReleases(b) ==
    LET n == DetachItemNmr(b) IN
    /\ Nmr[n].ReferenceCount = 1
    /\ Nmr'[n].alloc = "freed"
    /\ \A m \in NmrIds \ {n} : Nmr'[m] = Nmr[m]
    /\ Entry' = Entry
    /\ worker' = worker
    /\ Interface'[b].alloc = "live"
          => /\ Interface'[b].NmrDeleting = Interface[b].NmrDeleting
             /\ Interface'[b].Nmr = Interface[b].Nmr
             /\ Interface'[b].Clients = Interface[b].Clients
             /\ Interface'[b].InterfaceContext = Interface[b].InterfaceContext
             /\ Interface'[b].ProviderReference
                   = Interface[b].ProviderReference

\* The item found its attachment open: NmrDeleting is set when the routine
\* reaches the loop of the rundown or the wait of the close, and no client
\* has been detached by then.
OpenItemSetsNmrDeleting(b) ==
    /\ Interface'[b].NmrDeleting
    /\ worker'[b].pc \in {"rundown", "wait"}
    /\ worker'[b].walkNotified = <<>>
    /\ Interface'[b].Clients = Interface[b].Clients
    /\ Entry' = Entry

\* C31, as claimed: a detach item whose attachment was already closed only
\* releases the last reference of its context; a detach item whose
\* attachment is open finds NmrDeleting false and sets it before any client
\* is detached.
C31_DetachItemStartsRundownOnce ==
    [][\A b \in Bindings :
          WorkerInterfaceNmrDelete(b)
             => IF Nmr[DetachItemNmr(b)].NmrHandle = NULL
                THEN ClosedItemOnlyReleases(b)
                ELSE /\ ~Interface[b].NmrDeleting
                     /\ OpenItemSetsNmrDeleting(b)]_vars

\* On the paths where no ASSERT of bind.c has failed the claim of C31 holds.
C31_WhileAssertsHold ==
    [][\A b \in Bindings :
          (asserts = {} /\ WorkerInterfaceNmrDelete(b))
             => IF Nmr[DetachItemNmr(b)].NmrHandle = NULL
                THEN ClosedItemOnlyReleases(b)
                ELSE /\ ~Interface[b].NmrDeleting
                     /\ OpenItemSetsNmrDeleting(b)]_vars

(***************************************************************************)
(* C32: the attachment is opened only by a binding that has none.          *)
(***************************************************************************)
\* The attachment n is open: XdpOpenProvider succeeded and
\* XdpIfpCloseNmrInterface has not cleared its handle.
AttachmentOpen(n) == Nmr[n].alloc = "live" /\ Nmr[n].NmrHandle # NULL

\* Every open attachment is the one its binding points to, so a binding has
\* at most one and none is leaked or overwritten.
NoAttachmentOverwritten ==
    \A n \in NmrIds :
        AttachmentOpen(n) => Interface[Nmr[n].BindingHandle].Nmr = n

\* C32, as claimed: the assertions of XdpIfpReferenceProvider and
\* XdpIfpOpenInterface on the way into an open never fail, whatever the
\* provider does during an open, and every open attachment is the current
\* attachment of its binding.
C32_OpenedOnlyWhenUnattached ==
    /\ "ReferenceProvider:ProviderReference==0" \notin asserts
    /\ "OpenInterface:Nmr==NULL" \notin asserts
    /\ NoAttachmentOverwritten

====
